---- MODULE Spec2Model ----
(***************************************************************************)
(* A model of vectra-js: the ingestion coordinator and the query driver of *)
(* VectraClient (src/src/core.js), the RAG configuration schema            *)
(* (src/src/callbacks.js), the vector stores (src/src/backends,            *)
(* src/unnamed/part_004, src/unnamed/part_005) and the conversation        *)
(* history stores (src/src/memory.js).                                     *)
(***************************************************************************)
EXTENDS Integers, Sequences, FiniteSets, TLC

(***************************************************************************)
(* Bounds of the model.                                                    *)
(***************************************************************************)
\* number of ingestDocuments or queryRAG calls a behaviour makes
MaxCalls == 2
\* number of failures the environment (file system, embedding backend,
\* vector store) injects in a behaviour
MaxFaults == 3
\* the addMessage calls made on a history store
MaxAdds == 3
\* the largest n passed to getRecent
MaxN == 2
\* the largest memory.maxMessages configured
MaxMaxMessages == 2
\* the longest list of documents handed to a helper
MaxDocs == 3
\* the longest result list fused
MaxRank == 3
\* the longest test set evaluated
MaxItems == 2

(***************************************************************************)
(* Program constants.                                                      *)
(***************************************************************************)
\* core.js:225 and core.js:302, `if (attempt >= 3) throw err`
MaxAttempts == 3
\* core.js:217 and core.js:291, `let delay = 500`
InitialDelay == 500
\* core.js:227 and core.js:304, `Math.min(4000, delay * 2)`
DelayCap == 4000
\* core.js:212, the concurrencyLimit used when the configuration has none
DefaultConcurrencyLimit == 5
\* core.js:52 and callbacks.js:141, the default of memory.maxMessages
DefaultMaxMessages == 20
\* callbacks.js:102, the default of reranking.topN
DefaultTopN == 5
\* memory.js:13, the default n of getRecent
DefaultRecent == 10
\* core.js:396 and callbacks.js:157, the default of queryPlanning.tokenBudget
DefaultTokenBudget == 2048
\* core.js:397 and callbacks.js:157, the default of
\* queryPlanning.preferSummariesBelow
DefaultPreferSummariesBelow == 1024
\* core.js:451, the denominator lambda and the relevance scores are
\* written over: lambda 0.5 is 5, a relevance of 1.0 is 10
LambdaScale == 10
\* callbacks.js:111, core.js:451 and 545, the default lambda 0.5
DefaultMmrLambda == 5
\* core.js:380 and 387, the rewritten queries and the hypothetical
\* questions kept
MaxGenerated == 3
\* core.js:433, the default of the constant k of reciprocalRankFusion
DefaultRRFK == 60
\* core.js:540, the constant the multi-query strategy fuses with
MultiQueryRRFK == 1
\* core.js:581 and callbacks.js:158, the default of grounding.maxSnippets
DefaultMaxSnippets == 3
\* core.js:392, the characters tokenEstimate counts as one token
CharsPerToken == 4
\* core.js:404, the characters of the content that stand for a missing summary
SummarySlice == 800
\* core.js:405, the characters of the content used instead of a long summary
ContentSlice == 1200

(***************************************************************************)
(* The files of the model.  A file version is a path with the content      *)
(* (named by its SHA-256) and the modification time found there.  The size *)
(* of a file is determined by its content, so (sha, mtime) stands for the  *)
(* triple (sha256, size, mtime) that fileExists receives.                  *)
(***************************************************************************)
FileVersions ==
  { [path |-> "p1", sha |-> "a", mtime |-> 1, name |-> "doc.md"],
    [path |-> "p2", sha |-> "a", mtime |-> 2, name |-> "copy.md"],
    [path |-> "p1", sha |-> "b", mtime |-> 2, name |-> "doc.md"] }

\* processor.process(rawText): the chunks of a content, in order
Chunks(sha) == IF sha = "a" THEN <<"x", "y">> ELSE <<"y", "y">>

\* crypto.createHash('sha256').update(c).digest('hex') of a chunk: injective
ChunkHash(c) == <<"h", c>>

\* embedder.embedDocuments: the vector of a text
Embed(t) == <<"vec", t>>

NoVec == <<"none">>

(***************************************************************************)
(* Small helpers on sequences and sets.                                    *)
(***************************************************************************)
Min(a, b) == IF a < b THEN a ELSE b

Max(a, b) == IF a > b THEN a ELSE b

Range(s) == { s[i] : i \in DOMAIN s }

\* Array.prototype.slice(from, to) with 0-based, end-exclusive indices
Slice(s, from, to) ==
  LET lo == Max(0, Min(from, Len(s)))
      hi == Max(lo, Min(to, Len(s)))
  IN  [i \in 1..(hi - lo) |-> s[lo + i]]

RECURSIVE Flatten(_)
Flatten(ss) == IF ss = <<>> THEN <<>> ELSE Head(ss) \o Flatten(Tail(ss))

(***************************************************************************)
(* The configuration and the client built from it.                         *)
(***************************************************************************)
\* ingestion.mode as the caller writes it ("none": the key is absent)
Modes == {"none", "skip", "append", "replace"}

\* database.type values createVectorStore accepts and whose store is in the
\* source: "prisma" is src/src/backends/prisma_store.js, "prisma_sql" the
\* PrismaVectorStore of src/unnamed/part_004, "chroma" and "milvus"
StoreKinds == {"prisma", "prisma_sql", "chroma", "milvus"}

\* the callback events of ingestDocuments and queryRAG
IngestEvents ==
  {"onIngestStart", "onPreIngestionValidation", "onIngestSkipped",
   "onChunkingStart", "onEmbeddingStart", "onIngestEnd", "onError",
   "onIngestSummary"}

\* the handler configurations of the model: no handler throws, or the
\* handler of exactly one event throws
ThrowingHandlers ==
  {"none", "onIngestStart", "onIngestSkipped", "onIngestEnd", "onError", "onIngestSummary"}

\* RAGConfigSchema.parse: zod objects drop the keys the schema does not
\* name.  The ingestion object of the schema has rateLimitEnabled and
\* concurrencyLimit only, so `mode` does not survive the parse.
RAGConfigSchema(raw) ==
  [ ingestion     |-> [ rateLimitEnabled |-> raw.ingestion.rateLimitEnabled,
                        concurrencyLimit |-> raw.ingestion.concurrencyLimit ],
    observability |-> [ enabled |-> raw.observability.enabled ],
    database      |-> [ type |-> raw.database.type ],
    reranking     |-> [ enabled |-> raw.reranking.enabled,
                        topN    |-> raw.reranking.topN ],
    queryPlanning |-> [ present              |-> raw.queryPlanning.present,
                        tokenBudget          |-> raw.queryPlanning.tokenBudget,
                        preferSummariesBelow |-> raw.queryPlanning.preferSummariesBelow ],
    grounding     |-> [ enabled     |-> raw.grounding.enabled,
                        strict      |-> raw.grounding.strict,
                        maxSnippets |-> raw.grounding.maxSnippets ],
    retrieval     |-> [ strategy  |-> raw.retrieval.strategy,
                        mmrLambda |-> raw.retrieval.mmrLambda ],
    memory        |-> [ enabled     |-> raw.memory.enabled,
                        type        |-> raw.memory.type,
                        maxMessages |-> raw.memory.maxMessages,
                        redis       |-> [ clientInstance |-> raw.memory.redis.clientInstance ] ] ]

\* the mode one reads back from a parsed configuration: the parsed
\* ingestion object has no `mode` key, so the read gives undefined
ParsedMode(parsed) ==
  IF "mode" \in DOMAIN parsed.ingestion THEN parsed.ingestion.mode ELSE "none"

\* new VectraClient(config)
VectraClient(raw) ==
  LET parsed == RAGConfigSchema(raw)
  IN  [ config    |-> parsed,
        callbacks |-> raw.callbacks,
        logger    |-> IF parsed.observability.enabled THEN "SQLiteLogger" ELSE "null",
        history   |-> IF parsed.memory.enabled THEN parsed.memory.type ELSE "null" ]

\* a dispatch that always takes the append branch
IngestMode_Append(cl) == "append"

\* core.js:185, the mode ingestDocuments dispatches on
IngestMode(cl) ==
  IF ParsedMode(cl.config) = "none" THEN "skip" ELSE ParsedMode(cl.config)

(***************************************************************************)
(* Document ids.                                                           *)
(***************************************************************************)
\* uuidv5(`${fileSHA256}:${i}`, idNamespace): a function of its arguments
uuidv5(sha, i) == [ns |-> "v5", key |-> sha, n |-> i]

\* uuidv4(): a fresh random id, here the n-th one drawn
uuidv4(n) == [ns |-> "v4", key |-> "", n |-> n]

\* the primary key a Milvus collection generates for an inserted row
AutoId(n) == [ns |-> "auto", key |-> "", n |-> n]

\* core.js:240-260, the documents of a file (chunkIndex is 0-based)
Documents(f) ==
  [ i \in 1..Len(Chunks(f.sha)) |->
      [ id           |-> uuidv5(f.sha, i - 1),
        content      |-> Chunks(f.sha)[i],
        absolutePath |-> f.path,
        fileSHA256   |-> f.sha,
        lastModified |-> f.mtime,
        chunkIndex   |-> i - 1 ] ]

(***************************************************************************)
(* The vector stores.  A store is the set of its rows; a row is a document *)
(* under the id the store gave it.                                         *)
(***************************************************************************)
Row(doc, id, emb) ==
  [ id           |-> id,
    content      |-> doc.content,
    embedding    |-> emb,
    absolutePath |-> doc.absolutePath,
    fileSHA256   |-> doc.fileSHA256,
    lastModified |-> doc.lastModified,
    chunkIndex   |-> doc.chunkIndex ]

Ids(rows) == { r.id : r \in rows }

\* the stores that override fileExists (interfaces.js:17 returns false)
HasFileExists(kind) == kind \in {"prisma_sql", "chroma"}

\* fileExists(sha256, size, lastModified); `ok` is FALSE when the query
\* fails, which the stores and core.js:188 turn into false
fileExists(kind, rows, f, ok) ==
  /\ HasFileExists(kind)
  /\ ok
  /\ \E r \in rows : r.fileSHA256 = f.sha /\ r.lastModified = f.mtime

\* the id addDocuments stores the i-th document of a call under
StoredId(kind, doc, i, fresh) ==
  CASE kind = "prisma" -> uuidv4(fresh + i)
    [] kind = "milvus" -> AutoId(fresh + i)
    [] OTHER           -> doc.id

\* the index of the first document whose INSERT violates the primary key
\* (0: none); only prisma_sql inserts caller-given ids row by row
FirstConflict(kind, rows, docs) ==
  LET bad == { i \in DOMAIN docs : docs[i].id \in Ids(rows) }
  IN  IF kind = "prisma_sql" /\ bad # {}
      THEN CHOOSE i \in bad : \A j \in bad : i <= j
      ELSE 0

\* what an addDocuments call does.  failAt is the document at which the
\* environment fails the call (0: it does not); the row-by-row stores keep
\* the rows inserted before the failure, chroma and milvus write all rows
\* in one request.  dupIgnore: a chroma collection.add that meets an id it
\* already holds either rejects the request or skips that id.
addDocuments(kind, rows, docs, embs, fresh, failAt, dupIgnore) ==
  LET n        == Len(docs)
      conflict == FirstConflict(kind, rows, docs)
      stopAt   == IF failAt # 0 /\ conflict # 0 THEN Min(failAt, conflict)
                  ELSE IF failAt # 0 THEN failAt ELSE conflict
      rowOf(i) == Row(docs[i], StoredId(kind, docs[i], i, fresh), embs[i])
      perRow   == kind \in {"prisma", "prisma_sql"}
      dups     == { i \in 1..n : docs[i].id \in Ids(rows) }
  IN  IF perRow
      THEN [ rows |-> rows \cup { rowOf(i) : i \in 1..(IF stopAt = 0 THEN n ELSE stopAt - 1) },
             ok   |-> stopAt = 0,
             used |-> IF kind = "prisma" THEN n ELSE 0 ]
      ELSE IF failAt # 0
      THEN [ rows |-> rows, ok |-> FALSE, used |-> 0 ]
      ELSE IF kind = "chroma" /\ dups # {}
      THEN IF dupIgnore
           THEN [ rows |-> rows \cup { rowOf(i) : i \in (1..n) \ dups }, ok |-> TRUE, used |-> 0 ]
           ELSE [ rows |-> rows, ok |-> FALSE, used |-> 0 ]
      ELSE [ rows |-> rows \cup { rowOf(i) : i \in 1..n },
             ok   |-> TRUE,
             used |-> IF kind = "milvus" THEN n ELSE 0 ]

\* what an upsertDocuments call does: prisma inherits interfaces.js:3,
\* which throws; milvus forwards to addDocuments; prisma_sql upserts row
\* by row and chroma in one request, both replacing the row of the same id
upsertDocuments(kind, rows, docs, embs, fresh, failAt, dupIgnore) ==
  LET n        == Len(docs)
      rowOf(i) == Row(docs[i], docs[i].id, embs[i])
      upTo(m)  == { r \in rows : r.id \notin { docs[i].id : i \in 1..m } }
                    \cup { rowOf(i) : i \in 1..m }
  IN  CASE kind = "prisma"     -> [ rows |-> rows, ok |-> FALSE, used |-> 0 ]
        [] kind = "milvus"     -> addDocuments(kind, rows, docs, embs, fresh, failAt, dupIgnore)
        [] kind = "prisma_sql" -> [ rows |-> upTo(IF failAt = 0 THEN n ELSE failAt - 1),
                                    ok   |-> failAt = 0, used |-> 0 ]
        [] OTHER               -> [ rows |-> IF failAt = 0 THEN upTo(n) ELSE rows,
                                    ok   |-> failAt = 0, used |-> 0 ]

\* deleteDocuments({ filter: { absolutePath } }); prisma inherits
\* interfaces.js:14, which throws; core.js:287-289 swallows the failure
deleteDocuments(kind, rows, path, ok) ==
  IF kind = "prisma" \/ ~ok THEN rows
  ELSE { r \in rows : r.absolutePath # path }

(***************************************************************************)
(* State.                                                                  *)
(***************************************************************************)
VARIABLES
  config,          \* the configuration object given to the constructor
  client,          \* the VectraClient: parsed config, callbacks, logger
  vectorStore,     \* the rows of the vector store
  nextId,          \* how many random / generated ids have been drawn
  embeddingCache,  \* client._embeddingCache: chunk hash -> vector
  faults,          \* failures the environment may still inject
  calls,           \* ingestDocuments and queryRAG calls started so far
  call,            \* per caller: the frame of its ingestDocuments call
  history,         \* the conversation history store
  lastGet,         \* the last getRecent call and what it returned
  query,           \* per caller: the frame of its queryRAG call
  fn               \* a helper of the client applied on its own: its
                   \* arguments and, once it has run, what it returned

vars == <<config, client, vectorStore, nextId, embeddingCache, faults, calls, call,
          history, lastGet, query, fn>>

\* the state ingestion does not touch
queryVars == <<history, lastGet, query, fn>>

\* the state the history stores and queryRAG do not touch
ingestVars == <<vectorStore, nextId, embeddingCache, call, fn>>

\* the state a helper applied on its own does not touch
clientVars == <<config, client, vectorStore, nextId, embeddingCache, faults, calls, call,
                history, lastGet, query>>

\* no helper is being applied
NoFn == [op |-> "none"]

\* the callers of the client; the sequential specifications use caller 1
Procs == {1}

NoFile == [path |-> "", sha |-> "", mtime |-> 0, name |-> ""]

\* the summary object of core.js:150
EmptySummary == [processed |-> 0, succeeded |-> 0, failed |-> 0, errors |-> <<>>]

\* the frame of a call that has not started
IdleFrame ==
  [ pc          |-> "idle",
    file        |-> NoFile,      \* the file being ingested
    inDir       |-> FALSE,       \* the file is an entry of a directory call
    queue       |-> <<>>,        \* directory call: the entries still to visit
    summary     |-> EmptySummary,
    listing     |-> <<>>,        \* directory call: what readdir returned
    listed      |-> FALSE,       \* directory call: readdir has returned
    outcomes    |-> <<>>,        \* directory call: how each visited entry ended
    mapIndex    |-> <<>>,        \* core.js:203
    batches     |-> <<>>,        \* the batches still to embed
    newEmbeds   |-> <<>>,        \* core.js:209
    embeddings  |-> <<>>,        \* core.js:236
    attempt     |-> 0,
    delay       |-> InitialDelay,
    events      |-> <<>>,        \* the callback events emitted, in order
    embedCalls  |-> 0,           \* embedder.embedDocuments calls made
    batchTries  |-> 0,           \* attempts made on the current batch
    sleeps      |-> <<>>,        \* the delays waited in the current retry loop
    existsFirst |-> FALSE,       \* the fileExists call of core.js:188 returned true
    existsSeen  |-> FALSE,       \* a fileExists call returned true
    thrown      |-> "none",      \* the error thrown inside the try block
    storeBefore |-> {},          \* the store when the call started
    seenBefore  |-> FALSE,       \* the store held this file version at the start
    wrote       |-> FALSE,       \* a store write of this call succeeded
    result      |-> "none" ]     \* "ok", or the error the call rejects with

(***************************************************************************)
(* Callbacks and the error path.                                           *)
(***************************************************************************)
\* trigger(event) for each event of evs in turn (core.js:107-112): the
\* handlers are called unguarded, so the first one that throws ends the
\* sequence.  Gives the events emitted and whether a handler threw.
trigger(cl, evs) ==
  LET bad == { i \in DOMAIN evs : evs[i] = cl.callbacks }
      upto == IF bad = {} THEN Len(evs) ELSE CHOOSE i \in bad : \A j \in bad : i <= j
  IN  [ emitted |-> SubSeq(evs, 1, upto), threw |-> bad # {} ]

\* the catch block of ingestDocuments (core.js:324-339) for a thrown e:
\* onError is triggered, the trace is logged, e is rethrown.  A throwing
\* onError handler or a null logger replaces e.
CatchIngest(cl, e) ==
  IF trigger(cl, <<"onError">>).threw THEN "HandlerError"
  ELSE IF cl.logger = "null" THEN "TypeError"
  ELSE e

\* the entries of a directory that core.js:68-75 takes for temporary
isTemporaryFile(name) == name \in {"~$lock.docx", "notes.tmp", ".hidden"}

\* the frame after the ingestion of c.file ended with `outcome` ("ok" or
\* the error rethrown by the catch block).  For a single-file call that is
\* the end of the call; for an entry of a directory call it is the body of
\* the loop of core.js:155-163, and a throwing onError handler there
\* reaches the catch block of the directory call.
Finish(cl, c, outcome) ==
  IF ~c.inDir
  THEN [c EXCEPT !.pc = "done", !.result = outcome]
  ELSE LET c0 == [c EXCEPT !.outcomes = Append(@, outcome)]
       IN  IF outcome = "ok"
           THEN [c0 EXCEPT !.pc = "dirNext",
                           !.summary.succeeded = @ + 1]
           ELSE LET s == [c.summary EXCEPT !.failed = @ + 1,
                                           !.errors = Append(@, [file |-> c.file.path, message |-> outcome])]
                IN  IF trigger(cl, <<"onError">>).threw
                    THEN [c0 EXCEPT !.pc = "done", !.summary = s, !.inDir = FALSE,
                                    !.events = @ \o <<"onError", "onError">>,
                                    !.result = CatchIngest(cl, "HandlerError")]
                    ELSE [c0 EXCEPT !.pc = "dirNext", !.summary = s,
                                    !.events = Append(@, "onError")]

\* an error e thrown inside the try block of the ingestion of c.file
Throw(cl, c, e) ==
  Finish(cl, [c EXCEPT !.events = Append(@, "onError"), !.thrown = e], CatchIngest(cl, e))

\* emit evs inside the try block, then continue with `next` unless a
\* handler threw
EmitThen(cl, c, evs, next) ==
  LET t  == trigger(cl, evs)
      c1 == [c EXCEPT !.events = @ \o t.emitted]
  IN  IF t.threw THEN Throw(cl, c1, "HandlerError")
      ELSE [c1 EXCEPT !.pc = next]

(***************************************************************************)
(* Batching of the chunks to embed (core.js:210-215).                      *)
(***************************************************************************)
\* core.js:213
BatchLimit(cl, n) ==
  IF cl.config.ingestion.rateLimitEnabled
  THEN cl.config.ingestion.concurrencyLimit
  ELSE n

\* core.js:215, for (i = from; i < toEmbed.length; i += limit)
RECURSIVE BatchesFrom(_, _, _)
BatchesFrom(toEmbed, from, limit) ==
  IF from >= Len(toEmbed) THEN <<>>
  ELSE <<Slice(toEmbed, from, from + limit)>> \o BatchesFrom(toEmbed, from + limit, limit)

\* core.js:204-208, the 1-based indices of the chunks whose hash is not in
\* the cache, in order
MapIndex(cache, chunks) ==
  LET miss == { i \in DOMAIN chunks : cache[ChunkHash(chunks[i])] = NoVec }
      F[k \in 0..Len(chunks)] ==
        IF k = 0 THEN <<>>
        ELSE IF k \in miss THEN Append(F[k - 1], k) ELSE F[k - 1]
  IN  F[Len(chunks)]

\* a cache rebuilt from the new vectors alone
CacheSet_Fresh(cache, chunks, mapIndex, newEmbeds) ==
  [ h \in DOMAIN cache |->
      LET at == { j \in DOMAIN mapIndex : j <= Len(newEmbeds) /\ ChunkHash(chunks[mapIndex[j]]) = h }
      IN  IF at = {} THEN NoVec
          ELSE newEmbeds[CHOOSE j \in at : \A k \in at : k <= j] ]

\* core.js:231-234, the cache after newEmbeds.forEach(set)
RECURSIVE CacheSet(_, _, _, _)
CacheSet(cache, chunks, mapIndex, newEmbeds) ==
  IF mapIndex = <<>> \/ newEmbeds = <<>> THEN cache
  ELSE CacheSet([cache EXCEPT ![ChunkHash(chunks[Head(mapIndex)])] = Head(newEmbeds)],
                chunks, Tail(mapIndex), Tail(newEmbeds))

(***************************************************************************)
(* ingestDocuments(filePath) for a single file, one action per await.      *)
(***************************************************************************)
\* the rows a store holds for file version f
RowsOf(rows, f) ==
  { r \in rows : r.absolutePath = f.path /\ r.fileSHA256 = f.sha /\ r.lastModified = f.mtime }

\* the store holds every chunk of file version f, as after an ingest of f
Holds(rows, f) ==
  \A i \in 1..Len(Chunks(f.sha)) : \E r \in RowsOf(rows, f) : r.chunkIndex = i - 1

Frame(p) == call[p]

Kind == config.database.type

\* a caller starts ingestDocuments(f.path) on file version f
StartIngest(p, f) ==
  /\ Frame(p).pc \in {"idle", "done"}
  /\ calls < MaxCalls
  /\ calls' = calls + 1
  /\ call' = [call EXCEPT ![p] =
        [IdleFrame EXCEPT !.pc = "begin", !.file = f,
                          !.storeBefore = vectorStore,
                          !.seenBefore = Holds(vectorStore, f)]]
  /\ UNCHANGED <<config, client, vectorStore, nextId, embeddingCache, faults>>
  /\ UNCHANGED queryVars

\* core.js:146-185: stat, onIngestStart, the hashing pass,
\* onPreIngestionValidation.  ioOk = FALSE: stat or the read stream fails.
Begin(p) ==
  /\ Frame(p).pc = "begin"
  /\ \E ioOk \in IF faults > 0 THEN BOOLEAN ELSE {TRUE} :
       /\ faults' = IF ioOk THEN faults ELSE faults - 1
       /\ call' = [call EXCEPT ![p] =
            IF ioOk
            THEN EmitThen(client, Frame(p), <<"onIngestStart", "onPreIngestionValidation">>, "exists")
            ELSE Throw(client, Frame(p), "IOError")]
  /\ UNCHANGED <<config, client, vectorStore, nextId, embeddingCache, calls>>
  /\ UNCHANGED queryVars

\* core.js:186-193: the first fileExists check and the skip
CheckExists(p) ==
  /\ Frame(p).pc = "exists"
  /\ \E ok \in IF faults > 0 /\ HasFileExists(Kind) THEN BOOLEAN ELSE {TRUE} :
       LET exists == fileExists(Kind, vectorStore, Frame(p).file, ok)
           c      == [Frame(p) EXCEPT !.existsSeen = exists, !.existsFirst = exists]
       IN  /\ faults' = IF ok THEN faults ELSE faults - 1
           /\ call' = [call EXCEPT ![p] =
                IF IngestMode(client) = "skip" /\ exists
                THEN LET t == trigger(client, <<"onIngestSkipped">>)
                         c1 == [c EXCEPT !.events = @ \o t.emitted]
                     IN  IF t.threw THEN Throw(client, c1, "HandlerError")
                         ELSE Finish(client, c1, "ok")
                ELSE [c EXCEPT !.pc = "load"]]
  /\ UNCHANGED <<config, client, vectorStore, nextId, embeddingCache, calls>>
  /\ UNCHANGED queryVars

\* core.js:194-215: load, chunk, hash the chunks, consult the cache and
\* split the chunks to embed into batches.  With nothing to embed the call
\* goes on to core.js:236.
LoadAndChunk(p) ==
  /\ Frame(p).pc = "load"
  /\ \E loadOk \in IF faults > 0 THEN BOOLEAN ELSE {TRUE} :
       LET c      == Frame(p)
           chunks == Chunks(c.file.sha)
           mi     == MapIndex(embeddingCache, chunks)
           toEmbed == [j \in DOMAIN mi |-> chunks[mi[j]]]
           c1     == EmitThen(client, c, <<"onChunkingStart", "onEmbeddingStart">>, "embed")
           c2     == IF c1.pc # "embed" THEN c1
                     ELSE IF toEmbed = <<>>
                     THEN [c1 EXCEPT !.pc = "recheck",
                                     !.embeddings = [i \in DOMAIN chunks |->
                                                       embeddingCache[ChunkHash(chunks[i])]]]
                     ELSE [c1 EXCEPT !.mapIndex = mi,
                                     !.batches = BatchesFrom(toEmbed, 0, BatchLimit(client, Len(toEmbed))),
                                     !.attempt = 0, !.delay = InitialDelay]
       IN  /\ faults' = IF loadOk THEN faults ELSE faults - 1
           /\ call' = [call EXCEPT ![p] =
                IF loadOk THEN c2 ELSE Throw(client, c, "LoadError")]
  /\ UNCHANGED <<config, client, vectorStore, nextId, embeddingCache, calls>>
  /\ UNCHANGED queryVars

\* core.js:216-236: one embedDocuments attempt on the current batch.  After
\* the last batch the new vectors are written to the cache and the
\* embeddings of all chunks are read back from it.
EmbedBatch(p) ==
  /\ Frame(p).pc = "embed"
  /\ \E embedOk \in IF faults > 0 THEN BOOLEAN ELSE {TRUE} :
       LET c      == [Frame(p) EXCEPT !.embedCalls = @ + 1, !.batchTries = @ + 1]
           chunks == Chunks(c.file.sha)
           batch  == Head(c.batches)
           out    == [i \in DOMAIN batch |-> Embed(batch[i])]
           ne     == c.newEmbeds \o out
           cache1 == CacheSet(embeddingCache, chunks, c.mapIndex, ne)
           last   == Len(c.batches) = 1
       IN  /\ faults' = IF embedOk THEN faults ELSE faults - 1
           /\ embeddingCache' = IF embedOk /\ last THEN cache1 ELSE embeddingCache
           /\ call' = [call EXCEPT ![p] =
                IF embedOk
                THEN IF last
                     THEN [c EXCEPT !.pc = "recheck", !.batches = <<>>, !.newEmbeds = ne,
                                    !.embeddings = [i \in DOMAIN chunks |-> cache1[ChunkHash(chunks[i])]]]
                     ELSE [c EXCEPT !.batches = Tail(@), !.newEmbeds = ne,
                                    !.attempt = 0, !.delay = InitialDelay,
                                    !.batchTries = 0, !.sleeps = <<>>]
                ELSE IF c.attempt + 1 >= MaxAttempts
                     THEN Throw(client, [c EXCEPT !.attempt = @ + 1], "EmbedError")
                     ELSE [c EXCEPT !.attempt = @ + 1,
                                    !.sleeps = Append(@, c.delay),
                                    !.delay = Min(DelayCap, c.delay * 2)]]
  /\ UNCHANGED <<config, client, vectorStore, nextId, calls>>
  /\ UNCHANGED queryVars

\* core.js:275-290: ensureIndexes (best effort, no effect on the rows),
\* the second fileExists check and its skip, and in replace mode the
\* deleteDocuments call, whose failure is swallowed.
Recheck(p) ==
  /\ Frame(p).pc = "recheck"
  /\ \E ok \in IF faults > 0 /\ HasFileExists(Kind) THEN BOOLEAN ELSE {TRUE},
        delOk \in IF faults > 0 /\ IngestMode(client) = "replace" THEN BOOLEAN ELSE {TRUE} :
       LET exists == fileExists(Kind, vectorStore, Frame(p).file, ok)
           c      == [Frame(p) EXCEPT !.existsSeen = @ \/ exists]
           skip   == IngestMode(client) = "skip" /\ exists
           used   == (IF ok THEN 0 ELSE 1) + (IF delOk \/ skip THEN 0 ELSE 1)
       IN  /\ used <= faults
           /\ faults' = faults - used
           /\ vectorStore' =
                IF ~skip /\ IngestMode(client) = "replace"
                THEN deleteDocuments(Kind, vectorStore, c.file.path, delOk)
                ELSE vectorStore
           /\ call' = [call EXCEPT ![p] =
                IF skip
                THEN LET t == trigger(client, <<"onIngestSkipped">>)
                         c1 == [c EXCEPT !.events = @ \o t.emitted]
                     IN  IF t.threw THEN Throw(client, c1, "HandlerError")
                         ELSE Finish(client, c1, "ok")
                ELSE [c EXCEPT !.pc = "write", !.attempt = 0, !.delay = InitialDelay,
                               !.sleeps = <<>>]]
  /\ UNCHANGED <<config, client, nextId, embeddingCache, calls>>
  /\ UNCHANGED queryVars

\* the environment's choices for one store write: the document at which the
\* request fails (0: it does not)
FailPoints(kind, n) ==
  IF faults = 0 THEN {0}
  ELSE IF kind \in {"prisma", "prisma_sql"} THEN 0..n
  ELSE {0, 1}

\* core.js:291-322: one attempt of the store write; on success onIngestEnd
\* and the trace of the call, on the third failure the error is thrown.
WriteStore(p) ==
  /\ Frame(p).pc = "write"
  /\ \E failAt \in FailPoints(Kind, Len(Chunks(Frame(p).file.sha))),
        dupIgnore \in IF Kind = "chroma" THEN BOOLEAN ELSE {TRUE} :
       LET c    == Frame(p)
           docs == Documents(c.file)
           res  == IF IngestMode(client) = "replace"
                   THEN upsertDocuments(Kind, vectorStore, docs, c.embeddings, nextId, failAt, dupIgnore)
                   ELSE addDocuments(Kind, vectorStore, docs, c.embeddings, nextId, failAt, dupIgnore)
           c1   == [c EXCEPT !.wrote = TRUE]
           t    == trigger(client, <<"onIngestEnd">>)
           c2   == [c1 EXCEPT !.events = @ \o t.emitted]
       IN  /\ faults' = IF failAt = 0 THEN faults ELSE faults - 1
           /\ vectorStore' = res.rows
           /\ nextId' = nextId + res.used
           /\ call' = [call EXCEPT ![p] =
                IF res.ok
                THEN IF t.threw THEN Throw(client, c2, "HandlerError")
                     ELSE IF client.logger = "null" THEN Throw(client, c2, "TypeError")
                     ELSE Finish(client, c2, "ok")
                ELSE IF c.attempt + 1 >= MaxAttempts
                     THEN Throw(client, [c EXCEPT !.attempt = @ + 1], "StoreError")
                     ELSE [c EXCEPT !.attempt = @ + 1,
                                    !.sleeps = Append(@, c.delay),
                                    !.delay = Min(DelayCap, c.delay * 2)]]
  /\ UNCHANGED <<config, client, embeddingCache, calls>>
  /\ UNCHANGED queryVars

(***************************************************************************)
(* The history stores (memory.js).  A store holds, per kind, the map of    *)
(* the in-memory variant, the lists of the Redis variant or the table of   *)
(* the Postgres variant.  `clock` counts the addMessage calls made and     *)
(* stands for Date.now() and NOW(); `added` records, per session, the      *)
(* messages whose addMessage call stored them, in call order.              *)
(***************************************************************************)
Sessions == {"s1", "s2"}

\* a sessionId that is null, undefined or empty
NoSession == "null"

\* the (role, content) pair of the k-th addMessage call of the history
\* model: the roles alternate and every content is different, so that a
\* reader can tell any two messages apart
NthMessage(k) ==
  [ role    |-> IF k % 2 = 0 THEN "user" ELSE "assistant",
    content |-> <<"message", k>> ]

\* the Redis clients of the model: one with the lower-case commands
\* (rpush, ltrim, lrange) and one with the camel-case commands only
\* (lPush, lRange), the two shapes memory.js:30-36 and 45-49 test for
RedisClients == {"lowercase", "camelCase"}

HasMethod(redisClient, name) ==
  \/ redisClient = "lowercase" /\ name \in {"rpush", "lpush", "ltrim", "lrange"}
  \/ redisClient = "camelCase" /\ name \in {"rPush", "lPush", "lTrim", "lRange"}

Reverse(s) == [ i \in 1..Len(s) |-> s[Len(s) + 1 - i] ]

\* the last n elements of s (all of s when it has fewer)
LastN(s, n) == Slice(s, Max(0, Len(s) - n), Len(s))

\* what a reader of a message sees of it
Project(m) == [role |-> m.role, content |-> m.content]

ProjectAll(s) == [ i \in 1..Len(s) |-> Project(s[i]) ]

\* JSON.stringify({ role, content, ts }) and JSON.parse of such a payload
JSONstringify(m) == <<"{", m.role, m.content, m.ts, "}">>

JSONparse(x) == [role |-> x[2], content |-> x[3], ts |-> x[4]]

\* Redis list commands.  Indices are 0-based, negative ones count from the
\* tail, and out-of-range indices are clamped.
RedisIndex(len, i) == IF i < 0 THEN len + i ELSE i

LRANGE(list, start, stop) ==
  LET from == Max(0, RedisIndex(Len(list), start))
      to   == Min(Len(list) - 1, RedisIndex(Len(list), stop))
  IN  IF from > to THEN <<>> ELSE Slice(list, from, to + 1)

LTRIM(list, start, stop) == LRANGE(list, start, stop)

RPUSH(list, x) == Append(list, x)

LPUSH(list, x) == <<x>> \o list

\* ORDER BY createdAt DESC over rows with distinct createdAt
RECURSIVE OrderByCreatedAtDesc(_)
OrderByCreatedAtDesc(rows) ==
  IF rows = {} THEN <<>>
  ELSE LET newest == CHOOSE r \in rows : \A q \in rows : q.createdAt <= r.createdAt
       IN  <<newest>> \o OrderByCreatedAtDesc(rows \ {newest})

\* core.js:52-69, the history store the constructor builds
NewHistory(cl) ==
  [ kind        |-> cl.history,
    client      |-> IF cl.history = "redis"
                    THEN cl.config.memory.redis.clientInstance
                    ELSE "undefined",
    maxMessages |-> IF cl.config.memory.maxMessages = 0
                    THEN DefaultMaxMessages
                    ELSE cl.config.memory.maxMessages,
    sessions    |-> [s \in Sessions |-> <<>>],
    lists       |-> [s \in Sessions |-> <<>>],
    table       |-> {},
    clock       |-> 0,
    added       |-> [s \in Sessions |-> <<>>] ]

\* a call that is made and stores nothing
Tick(h) == [h EXCEPT !.clock = @ + 1]

\* a call that stores the message
StoreMessage(h, sessionId, role, content) ==
  [h EXCEPT !.clock = @ + 1,
            !.added[sessionId] = Append(@, [role |-> role, content |-> content, ts |-> h.clock])]

\* InMemoryHistory.addMessage with the trailing window left out
InMemoryHistory_addMessage_NoWindow(h, sessionId, role, content) ==
  IF sessionId = NoSession THEN Tick(h)
  ELSE [StoreMessage(h, sessionId, role, content) EXCEPT
          !.sessions[sessionId] =
             Append(@, [role |-> role, content |-> content, ts |-> h.clock])]

\* InMemoryHistory.addMessage
InMemoryHistory_addMessage(h, sessionId, role, content) ==
  IF sessionId = NoSession THEN Tick(h)
  ELSE LET arr   == Append(h.sessions[sessionId],
                           [role |-> role, content |-> content, ts |-> h.clock])
           start == Max(0, Len(arr) - h.maxMessages)
       IN  [StoreMessage(h, sessionId, role, content) EXCEPT
              !.sessions[sessionId] = Slice(arr, start, Len(arr))]

\* InMemoryHistory.getRecent
InMemoryHistory_getRecent(h, sessionId, n) ==
  IF sessionId = NoSession THEN <<>>
  ELSE LET arr   == h.sessions[sessionId]
           start == Max(0, Len(arr) - n)
       IN  Slice(arr, start, Len(arr))

\* RedisHistory.addMessage.  pushOk and trimOk say whether the push and the
\* trim command succeed; a failing command throws, and the throw is caught
\* and dropped.
RedisHistory_addMessage(h, sessionId, role, content, pushOk, trimOk) ==
  IF sessionId = NoSession \/ h.client = "undefined" THEN Tick(h)
  ELSE LET payload == JSONstringify([role |-> role, content |-> content, ts |-> h.clock])
           list    == h.lists[sessionId]
           canPush == HasMethod(h.client, "rpush") \/ HasMethod(h.client, "lPush")
           pushed  == IF HasMethod(h.client, "rpush") THEN RPUSH(list, payload)
                      ELSE IF HasMethod(h.client, "lPush") THEN LPUSH(list, payload)
                      ELSE list
           trimmed == IF HasMethod(h.client, "ltrim") /\ trimOk
                      THEN LTRIM(pushed, 0 - h.maxMessages, -1)
                      ELSE pushed
       IN  IF canPush /\ ~pushOk THEN Tick(h)
           ELSE [ (IF canPush THEN StoreMessage(h, sessionId, role, content) ELSE Tick(h))
                    EXCEPT !.lists[sessionId] = trimmed ]

\* RedisHistory.getRecent; a failing range command gives []
RedisHistory_getRecent(h, sessionId, n, ok) ==
  IF sessionId = NoSession \/ h.client = "undefined" THEN <<>>
  ELSE LET list == h.lists[sessionId]
           arr  == IF HasMethod(h.client, "lrange") \/ HasMethod(h.client, "lRange")
                   THEN LRANGE(list, 0 - n, -1)
                   ELSE <<>>
       IN  IF ~ok THEN <<>> ELSE [ i \in 1..Len(arr) |-> JSONparse(arr[i]) ]

\* PostgresHistory.addMessage; a failing INSERT is caught and dropped
PostgresHistory_addMessage(h, sessionId, role, content, ok) ==
  IF sessionId = NoSession \/ ~ok THEN Tick(h)
  ELSE [StoreMessage(h, sessionId, role, content) EXCEPT
          !.table = @ \cup { [sessionId |-> sessionId, role |-> role,
                              content |-> content, createdAt |-> h.clock] }]

\* PostgresHistory.getRecent; a failing SELECT gives []
PostgresHistory_getRecent(h, sessionId, n, ok) ==
  IF sessionId = NoSession \/ ~ok THEN <<>>
  ELSE LET rows == OrderByCreatedAtDesc({ r \in h.table : r.sessionId = sessionId })
           some == SubSeq(rows, 1, Min(Len(rows), Max(1, n)))
       IN  ProjectAll(Reverse(some))

\* history.addMessage(sessionId, role, content) of the configured variant
addMessage(h, sessionId, role, content, ok1, ok2) ==
  IF h.kind = "in-memory" THEN InMemoryHistory_addMessage(h, sessionId, role, content)
  ELSE IF h.kind = "redis" THEN RedisHistory_addMessage(h, sessionId, role, content, ok1, ok2)
  ELSE IF h.kind = "postgres" THEN PostgresHistory_addMessage(h, sessionId, role, content, ok1)
  ELSE h

\* history.getRecent(sessionId, n) of the configured variant
getRecent(h, sessionId, n, ok) ==
  IF h.kind = "in-memory" THEN InMemoryHistory_getRecent(h, sessionId, n)
  ELSE IF h.kind = "redis" THEN RedisHistory_getRecent(h, sessionId, n, ok)
  ELSE IF h.kind = "postgres" THEN PostgresHistory_getRecent(h, sessionId, n, ok)
  ELSE <<>>

\* the variants whose commands go to a server and can fail
Remote(h) == h.kind \in {"redis", "postgres"}

\* no getRecent call made yet
NoGet == [called |-> FALSE, sessionId |-> NoSession, n |-> 0, ok |-> TRUE, result |-> <<>>]

\* a caller adds a message; what the last getRecent call returned is
\* forgotten, so that lastGet always speaks of the store as it is
AddMessage(sessionId) ==
  /\ history.kind # "null"
  /\ history.clock < MaxAdds
  /\ \E ok1, ok2 \in (IF faults > 0 /\ Remote(history) THEN BOOLEAN ELSE {TRUE}) :
       /\ history' = addMessage(history, sessionId, NthMessage(history.clock).role,
                                 NthMessage(history.clock).content, ok1, ok2)
       /\ faults' = IF ok1 /\ ok2 THEN faults ELSE faults - 1
  /\ lastGet' = NoGet
  /\ UNCHANGED <<config, client, calls, query>>
  /\ UNCHANGED ingestVars

\* a caller reads the n most recent messages
GetRecent(sessionId, n) ==
  /\ history.kind # "null"
  /\ \E ok \in (IF faults > 0 /\ Remote(history) THEN BOOLEAN ELSE {TRUE}) :
       /\ lastGet' = [ called |-> TRUE, sessionId |-> sessionId, n |-> n, ok |-> ok,
                       result |-> ProjectAll(getRecent(history, sessionId, n, ok)) ]
       /\ faults' = IF ok THEN faults ELSE faults - 1
  /\ lastGet' # lastGet
  /\ UNCHANGED <<config, client, calls, history, query>>
  /\ UNCHANGED ingestVars


(***************************************************************************)
(* queryRAG (core.js:502-767), the non-streaming path with the default     *)
(* retrieval strategy.                                                     *)
(***************************************************************************)
QueryEvents ==
  {"onRetrievalStart", "onRerankingStart", "onRerankingEnd", "onRetrievalEnd",
   "onGenerationStart", "onGenerationEnd", "onError"}

\* the handler configurations of the query model
QueryThrowingHandlers ==
  {"none", "onRetrievalStart", "onRetrievalEnd", "onGenerationEnd", "onError"}

\* the query texts and the answer of the language model
Queries == {"question"}

Answer == "answer"

\* a document as similaritySearch returns it
Doc(id) == [id |-> id, score |-> 0]

\* what similaritySearch can return
SearchResults == { <<>>, <<Doc("d1")>>, <<Doc("d1"), Doc("d2")>> }

\* the scores the reranking model can give a document
RerankScores == {0, 7}

\* d placed behind the documents of `sorted` that score at least as high
InsertByScore(sorted, d) ==
  LET ahead == { i \in 1..Len(sorted) : sorted[i].score >= d.score }
      k     == IF ahead = {} THEN 0 ELSE CHOOSE i \in ahead : \A j \in ahead : j <= i
  IN  SubSeq(sorted, 1, k) \o <<d>> \o SubSeq(sorted, k + 1, Len(sorted))

\* Array.prototype.sort with (a, b) => b.score - a.score, which is stable
RECURSIVE SortByScoreDesc(_)
SortByScoreDesc(docs) ==
  IF docs = <<>> THEN <<>>
  ELSE InsertByScore(SortByScoreDesc(SubSeq(docs, 1, Len(docs) - 1)), docs[Len(docs)])

\* LLMReranker.rerank, with scores[i] the score scoreDocument gives docs[i]
rerank(docs, scores, topN) ==
  IF docs = <<>> THEN <<>>
  ELSE LET scored == [ i \in 1..Len(docs) |-> [docs[i] EXCEPT !.score = scores[i]] ]
           sorted == SortByScoreDesc(scored)
       IN  SubSeq(sorted, 1, Min(Len(sorted), topN))

\* the frame of a queryRAG call that has not started; h is the history
\* store at that time
IdleQuery(h) ==
  [ pc            |-> "idle",
    text          |-> "",
    sessionId     |-> NoSession,
    docs          |-> <<>>,
    recent        |-> <<>>,      \* the messages read for the prompt
    answer        |-> "",
    events        |-> <<>>,      \* the callback events emitted, in order
    thrown        |-> "none",    \* the error thrown inside the try block
    generated     |-> FALSE,     \* llm.generate returned
    envFailed     |-> FALSE,     \* an external call of this query failed
    historyBefore |-> h,         \* the history store when the call started
    produced      |-> <<>>,      \* the elements the backend stream produced
    yielded       |-> <<>>,      \* the elements the consumer received
    fullAnswer    |-> "",        \* the deltas accumulated by wrappedStream
    ended         |-> "none",    \* how the wrapped stream finished
    streamError   |-> "none",    \* the error the consumer's next() rejects with
    result        |-> "none" ]   \* "ok", "stream", or the error the call rejects with

\* the catch block of queryRAG (core.js:753-766) for a thrown e
CatchQuery(cl, e) ==
  IF trigger(cl, <<"onError">>).threw THEN "HandlerError"
  ELSE IF cl.logger = "null" THEN "TypeError"
  ELSE e

\* an error e thrown inside the try block of queryRAG
ThrowQuery(cl, q, e) ==
  [q EXCEPT !.pc = "done", !.events = Append(@, "onError"),
            !.thrown = e, !.result = CatchQuery(cl, e)]

\* an external call of the query failed with e
FailQuery(cl, q, e) == ThrowQuery(cl, [q EXCEPT !.envFailed = TRUE], e)

\* core.js:502-516: the call starts.  With a sessionId it calls
\* logger.updateSession, which is outside the try block; the logger is
\* null or an SQLiteLogger, and neither has that method.
StartQuery(p, text, sessionId) ==
  /\ query[p].pc \in {"idle", "done"}
  /\ call[p].pc \in {"idle", "done"}
  /\ calls < MaxCalls
  /\ calls' = calls + 1
  /\ LET q0 == [IdleQuery(history) EXCEPT !.text = text, !.sessionId = sessionId]
         t  == trigger(client, <<"onRetrievalStart">>)
     IN  query' = [query EXCEPT ![p] =
           IF sessionId # NoSession
           THEN [q0 EXCEPT !.pc = "done", !.result = "TypeError"]
           ELSE IF t.threw
           THEN ThrowQuery(client, [q0 EXCEPT !.events = t.emitted], "HandlerError")
           ELSE [q0 EXCEPT !.pc = "retrieve", !.events = t.emitted]]
  /\ UNCHANGED <<config, client, faults, history, lastGet>>
  /\ UNCHANGED ingestVars

\* the events of core.js:559 emitted before those of core.js:552-556
RetrievalEvents_EndFirst(on) ==
  <<"onRetrievalEnd">> \o (IF on THEN <<"onRerankingStart", "onRerankingEnd">> ELSE <<>>)

\* core.js:552-559: the events that close retrieval; `on` when reranking
\* is enabled
RetrievalEvents(on) ==
  (IF on THEN <<"onRerankingStart", "onRerankingEnd">> ELSE <<>>) \o <<"onRetrievalEnd">>

\* core.js:523-570: the query is embedded, the store searched, the
\* documents reranked when reranking is enabled, and the retrieval traced
Retrieve(p) ==
  /\ query[p].pc = "retrieve"
  /\ \E fail \in (IF faults > 0 THEN {"none", "embedQuery", "similaritySearch"} ELSE {"none"}),
        found \in SearchResults :
       \E scores \in [DOMAIN found -> RerankScores] :
         LET q    == query[p]
             on   == client.config.reranking.enabled
             docs == IF on THEN rerank(found, scores, client.config.reranking.topN) ELSE found
             t    == trigger(client, RetrievalEvents(on))
             q1   == [q EXCEPT !.events = @ \o t.emitted, !.docs = docs]
         IN  /\ query' = [query EXCEPT ![p] =
                   IF fail = "embedQuery" THEN FailQuery(client, q, "EmbedError")
                   ELSE IF fail = "similaritySearch" THEN FailQuery(client, q, "StoreError")
                   ELSE IF t.threw THEN ThrowQuery(client, q1, "HandlerError")
                   ELSE IF client.logger = "null" THEN ThrowQuery(client, q1, "TypeError")
                   ELSE [q1 EXCEPT !.pc = "generate"]]
             /\ faults' = IF fail = "none" THEN faults ELSE faults - 1
  /\ UNCHANGED <<config, client, calls, history, lastGet>>
  /\ UNCHANGED ingestVars

\* core.js:572-751: the prompt is built with the recent history, the
\* answer generated, the two messages added to the history, the generation
\* traced and the answer returned
Generate(p) ==
  /\ query[p].pc = "generate"
  /\ \E fail \in (IF faults > 0
                  THEN {"none", "generate"} \cup
                       (IF Remote(history) /\ query[p].sessionId # NoSession
                        THEN {"getRecent", "addUser", "addAssistant"} ELSE {})
                  ELSE {"none"}) :
       LET q      == query[p]
           remember == client.history # "null" /\ q.sessionId # NoSession
           recent == IF remember
                     THEN ProjectAll(getRecent(history, q.sessionId, DefaultRecent, fail # "getRecent"))
                     ELSE <<>>
           t1     == trigger(client, <<"onGenerationStart">>)
           q1     == [q EXCEPT !.recent = recent, !.events = @ \o t1.emitted,
                               !.envFailed = (fail # "none")]
           h1     == addMessage(history, q.sessionId, "user", q.text,
                                fail # "addUser", fail # "addUser")
           h2     == addMessage(h1, q.sessionId, "assistant", Answer,
                                fail # "addAssistant", fail # "addAssistant")
           t2     == trigger(client, <<"onGenerationEnd">>)
           q2     == [q1 EXCEPT !.generated = TRUE, !.answer = Answer,
                                !.events = @ \o t2.emitted]
       IN  /\ query' = [query EXCEPT ![p] =
                 IF t1.threw THEN ThrowQuery(client, q1, "HandlerError")
                 ELSE IF fail = "generate" THEN ThrowQuery(client, q1, "LLMError")
                 ELSE IF t2.threw THEN ThrowQuery(client, q2, "HandlerError")
                 ELSE IF client.logger = "null" THEN ThrowQuery(client, q2, "TypeError")
                 ELSE [q2 EXCEPT !.pc = "done", !.result = "ok"]]
           /\ history' = IF ~t1.threw /\ fail # "generate" /\ remember THEN h2 ELSE history
           /\ faults' = IF fail = "none" THEN faults ELSE faults - 1
  /\ UNCHANGED <<config, client, calls, lastGet>>
  /\ UNCHANGED ingestVars


(***************************************************************************)
(* The specification of single-file ingestion.                             *)
(***************************************************************************)
\* the configurations a behaviour starts from
Configs ==
  { [ ingestion     |-> [mode |-> m, rateLimitEnabled |-> rl, concurrencyLimit |-> IF rl THEN 1 ELSE DefaultConcurrencyLimit],
      observability |-> [enabled |-> ob],
      database      |-> [type |-> k],
      reranking     |-> [enabled |-> FALSE, topN |-> DefaultTopN],
      queryPlanning |-> [present |-> FALSE, tokenBudget |-> DefaultTokenBudget,
                       preferSummariesBelow |-> DefaultPreferSummariesBelow],
      grounding     |-> [enabled |-> FALSE, strict |-> FALSE, maxSnippets |-> DefaultMaxSnippets],
      retrieval     |-> [strategy |-> "naive", mmrLambda |-> DefaultMmrLambda],
      memory        |-> [enabled |-> FALSE, type |-> "in-memory", maxMessages |-> DefaultMaxMessages,
                         redis |-> [clientInstance |-> "undefined"]],
      callbacks     |-> h ] :
      m \in Modes, rl \in BOOLEAN, ob \in BOOLEAN, k \in StoreKinds, h \in ThrowingHandlers }

EmptyCache == [h \in {ChunkHash("x"), ChunkHash("y")} |-> NoVec]

\* the client after construction from one of `configs`
InitClient(configs) ==
  /\ config \in configs
  /\ client = VectraClient(config)
  /\ vectorStore = {}
  /\ nextId = 0
  /\ embeddingCache = EmptyCache
  /\ faults = MaxFaults
  /\ calls = 0
  /\ call = [p \in Procs |-> IdleFrame]
  /\ history = NewHistory(client)
  /\ lastGet = NoGet
  /\ query = [p \in Procs |-> IdleQuery(history)]

InitWith(configs) ==
  /\ InitClient(configs)
  /\ fn = NoFn

Init == InitWith(Configs)

Next ==
  \E p \in Procs :
    \/ \E f \in FileVersions : StartIngest(p, f)
    \/ Begin(p)
    \/ CheckExists(p)
    \/ LoadAndChunk(p)
    \/ EmbedBatch(p)
    \/ Recheck(p)
    \/ WriteStore(p)

Spec == Init /\ [][Next]_vars

TypeOK ==
  /\ calls \in 0..MaxCalls
  /\ faults \in 0..MaxFaults
  /\ \A p \in Procs : call[p].result \in {"none", "ok", "IOError", "LoadError", "EmbedError", "StoreError", "HandlerError", "TypeError"}

(***************************************************************************)
(* ingestDocuments(filePath) for a directory (core.js:148-166).            *)
(***************************************************************************)
\* what readdir returns for the directories of the model
Directories ==
  { << [path |-> "p1", sha |-> "a", mtime |-> 1, name |-> "doc.md"],
       [path |-> "p3", sha |-> "b", mtime |-> 1, name |-> "notes.tmp"],
       [path |-> "p2", sha |-> "b", mtime |-> 1, name |-> "more.md"] >>,
    << [path |-> "p1", sha |-> "a", mtime |-> 1, name |-> "doc.md"],
       [path |-> "p2", sha |-> "a", mtime |-> 2, name |-> "copy.md"] >> }

\* a caller starts ingestDocuments(dir) on a directory that lists `entries`
StartIngestDir(p, entries) ==
  /\ Frame(p).pc \in {"idle", "done"}
  /\ calls < MaxCalls
  /\ calls' = calls + 1
  /\ call' = [call EXCEPT ![p] =
        [IdleFrame EXCEPT !.pc = "dirBegin", !.listing = entries,
                          !.storeBefore = vectorStore]]
  /\ UNCHANGED <<config, client, vectorStore, nextId, embeddingCache, faults>>
  /\ UNCHANGED queryVars

\* core.js:146-150: stat and readdir of the directory
DirBegin(p) ==
  /\ Frame(p).pc = "dirBegin"
  /\ \E ioOk \in IF faults > 0 THEN BOOLEAN ELSE {TRUE} :
       /\ faults' = IF ioOk THEN faults ELSE faults - 1
       /\ call' = [call EXCEPT ![p] =
            IF ioOk
            THEN [Frame(p) EXCEPT !.pc = "dirNext", !.queue = Frame(p).listing,
                                  !.listed = TRUE]
            ELSE Throw(client, Frame(p), "IOError")]
  /\ UNCHANGED <<config, client, vectorStore, nextId, embeddingCache, calls>>
  /\ UNCHANGED queryVars

\* core.js:151-156 and 164-165: the head of the loop.  A temporary entry is
\* passed over, any other entry is counted and ingested by a nested
\* ingestDocuments call; after the last entry the summary is emitted.
DirNext(p) ==
  /\ Frame(p).pc = "dirNext"
  /\ LET c == [Frame(p) EXCEPT !.inDir = FALSE]
     IN  call' = [call EXCEPT ![p] =
           IF c.queue = <<>>
           THEN LET t  == trigger(client, <<"onIngestSummary">>)
                    c1 == [c EXCEPT !.events = @ \o t.emitted]
                IN  IF t.threw THEN Throw(client, c1, "HandlerError")
                    ELSE [c1 EXCEPT !.pc = "done", !.result = "ok"]
           ELSE IF isTemporaryFile(Head(c.queue).name)
           THEN [c EXCEPT !.pc = "dirNext", !.queue = Tail(@)]
           ELSE [c EXCEPT !.pc = "begin", !.queue = Tail(@), !.inDir = TRUE,
                          !.file = Head(c.queue),
                          !.summary.processed = @ + 1,
                          !.mapIndex = <<>>, !.batches = <<>>, !.newEmbeds = <<>>,
                          !.embeddings = <<>>, !.attempt = 0, !.delay = InitialDelay,
                          !.batchTries = 0, !.sleeps = <<>>, !.wrote = FALSE,
                          !.existsSeen = FALSE, !.existsFirst = FALSE, !.thrown = "none",
                          !.seenBefore = Holds(vectorStore, Head(c.queue))]]
  /\ UNCHANGED <<config, client, vectorStore, nextId, embeddingCache, faults, calls>>
  /\ UNCHANGED queryVars

NextDir ==
  \E p \in Procs :
    \/ \E d \in Directories : StartIngestDir(p, d)
    \/ DirBegin(p)
    \/ DirNext(p)
    \/ Begin(p)
    \/ CheckExists(p)
    \/ LoadAndChunk(p)
    \/ EmbedBatch(p)
    \/ Recheck(p)
    \/ WriteStore(p)

SpecDir == Init /\ [][NextDir]_vars

(***************************************************************************)
(* The history stores on their own: callers add messages and read them     *)
(* back.                                                                   *)
(***************************************************************************)
\* the configurations with no memory, everything else at its default
BaseConfig ==
  [ ingestion     |-> [mode |-> "none", rateLimitEnabled |-> FALSE,
                       concurrencyLimit |-> DefaultConcurrencyLimit],
    observability |-> [enabled |-> FALSE],
    database      |-> [type |-> "chroma"],
    reranking     |-> [enabled |-> FALSE, topN |-> DefaultTopN],
    queryPlanning |-> [present |-> FALSE, tokenBudget |-> DefaultTokenBudget,
                       preferSummariesBelow |-> DefaultPreferSummariesBelow],
    grounding     |-> [enabled |-> FALSE, strict |-> FALSE, maxSnippets |-> DefaultMaxSnippets],
    retrieval     |-> [strategy |-> "naive", mmrLambda |-> DefaultMmrLambda],
    memory        |-> [enabled |-> FALSE, type |-> "in-memory", maxMessages |-> DefaultMaxMessages,
                       redis |-> [clientInstance |-> "undefined"]],
    callbacks     |-> "none" ]

\* the memory configurations: maxMessages 0 is replaced by the default of
\* core.js:52; a Redis store is given one of the clients or none
MemoryConfigs ==
  { [enabled |-> TRUE, type |-> t, maxMessages |-> mm, redis |-> [clientInstance |-> rc]] :
      t \in {"in-memory", "redis", "postgres"}, mm \in 0..MaxMaxMessages,
      rc \in RedisClients \cup {"undefined"} }

HistoryConfigs ==
  { [BaseConfig EXCEPT !.memory = m] :
      m \in { x \in MemoryConfigs : x.type # "redis" => x.redis.clientInstance = "undefined" } }

InitHistory == InitWith(HistoryConfigs)

NextHistory ==
  \/ \E sessionId \in Sessions \cup {NoSession} : AddMessage(sessionId)
  \/ \E sessionId \in Sessions \cup {NoSession}, n \in 0..MaxN : GetRecent(sessionId, n)

SpecHistory == InitHistory /\ [][NextHistory]_vars

(***************************************************************************)
(* Queries on their own.                                                   *)
(***************************************************************************)
QueryConfigs ==
  { [BaseConfig EXCEPT !.observability.enabled = ob,
                       !.reranking = [enabled |-> rr, topN |-> 1],
                       !.memory = m,
                       !.callbacks = h] :
      ob \in BOOLEAN, rr \in BOOLEAN, h \in QueryThrowingHandlers,
      m \in { x \in MemoryConfigs \cup {BaseConfig.memory} :
                /\ x.maxMessages = MaxMaxMessages \/ ~x.enabled
                /\ x.type # "redis" => x.redis.clientInstance = "undefined"
                /\ x.type = "redis" => x.redis.clientInstance # "undefined" } }

InitQuery == InitWith(QueryConfigs)

NextQuery ==
  \E p \in Procs :
    \/ \E text \in Queries, sessionId \in Sessions \cup {NoSession} : StartQuery(p, text, sessionId)
    \/ Retrieve(p)
    \/ Generate(p)

SpecQuery == InitQuery /\ [][NextQuery]_vars

(***************************************************************************)
(* The context planner (core.js:390-413).  A text is modelled by its       *)
(* length.  A retrieved document has the length of its header line         *)
(* `${docTitle} ${section} ${pages}\n` (at least 3), of its summary (0:    *)
(* there is none) and of its content.  queryPlanning.present is FALSE when *)
(* the configuration has no queryPlanning object.                          *)
(***************************************************************************)
\* all sequences over S of length at most n
SeqsUpTo(S, n) == UNION { [1..k -> S] : k \in 0..n }

\* VectraClient.tokenEstimate, on the length of the text
tokenEstimate(len) == (len + CharsPerToken - 1) \div CharsPerToken

\* core.js:396, `budget`
Budget(cl) ==
  IF cl.config.queryPlanning.present /\ cl.config.queryPlanning.tokenBudget # 0
  THEN cl.config.queryPlanning.tokenBudget
  ELSE DefaultTokenBudget

\* core.js:397, `preferSumm`
PreferSumm(cl) ==
  IF cl.config.queryPlanning.present /\ cl.config.queryPlanning.preferSummariesBelow # 0
  THEN cl.config.queryPlanning.preferSummariesBelow
  ELSE DefaultPreferSummariesBelow

\* core.js:404-406, the part made of document d
PartOf(cl, d) ==
  LET sum    == IF d.summary # 0 THEN d.summary ELSE Min(d.content, SummarySlice)
      chosen == IF tokenEstimate(sum) <= PreferSumm(cl) THEN sum
                ELSE Min(d.content, ContentSlice)
  IN  [id |-> d.id, len |-> d.header + chosen]

\* the loop of core.js:400-411 from document i on, with a `continue` in
\* place of the `break`
RECURSIVE PlanFrom_Backfill(_, _, _, _, _)
PlanFrom_Backfill(cl, docs, i, used, parts) ==
  IF i > Len(docs) THEN parts
  ELSE LET part == PartOf(cl, docs[i])
           est  == tokenEstimate(part.len)
       IN  IF used + est > Budget(cl)
           THEN PlanFrom_Backfill(cl, docs, i + 1, used, parts)
           ELSE PlanFrom_Backfill(cl, docs, i + 1, used + est, Append(parts, part))

\* the loop of core.js:400-411 from document i on
RECURSIVE PlanFrom(_, _, _, _, _)
PlanFrom(cl, docs, i, used, parts) ==
  IF i > Len(docs) THEN parts
  ELSE LET part == PartOf(cl, docs[i])
           est  == tokenEstimate(part.len)
       IN  IF used + est > Budget(cl)
           THEN parts
           ELSE PlanFrom(cl, docs, i + 1, used + est, Append(parts, part))

\* buildContextParts that skips an overflowing part and goes on
buildContextParts_Backfill(cl, docs) == PlanFrom_Backfill(cl, docs, 1, 0, <<>>)

\* VectraClient.buildContextParts
buildContextParts(cl, docs) == PlanFrom(cl, docs, 1, 0, <<>>)

\* the documents of the planner model: parts of 4, 5 and 7 tokens, a
\* 2-token part, and a document whose summary is too long to be preferred
PlanDocs ==
  { [id |-> "d1", header |-> 3, summary |-> 13,   content |-> 40],
    [id |-> "d2", header |-> 3, summary |-> 17,   content |-> 40],
    [id |-> "d3", header |-> 3, summary |-> 0,    content |-> 25],
    [id |-> "d4", header |-> 3, summary |-> 0,    content |-> 5],
    [id |-> "d5", header |-> 3, summary |-> 4100, content |-> 2000] }

\* the calls of the planner model, each with the configuration of the
\* client it is made on
PlanCalls(base) ==
  { [op |-> "buildContextParts", docs |-> ds, done |-> FALSE, out |-> <<>>,
     cfg |-> [base EXCEPT !.queryPlanning =
                [present |-> pr, tokenBudget |-> tb, preferSummariesBelow |-> ps]]] :
      ds \in SeqsUpTo(PlanDocs, MaxDocs),
      pr \in BOOLEAN, tb \in {0, 8, 10, 400}, ps \in {0, 4, DefaultPreferSummariesBelow} }

\* the planner runs on the retrieved documents
ApplyBuildContextParts ==
  /\ fn.op = "buildContextParts"
  /\ ~fn.done
  /\ fn' = [fn EXCEPT !.done = TRUE, !.out = buildContextParts(client, fn.docs)]
  /\ UNCHANGED clientVars

(***************************************************************************)
(* Grounding (core.js:415-431 and 579-589).  A text is a sequence of       *)
(* symbols: words, the full stop and the blank.  A document carries its    *)
(* content twice: as `text`, and as the length `content` the planner uses. *)
(***************************************************************************)
\* String.prototype.toLowerCase on a word
Lower(w) == IF w = "Cat" THEN "cat" ELSE w

\* text.split(/(?<=[.!?])\s+/) from symbol i on: a run of blanks that
\* follows a full stop ends the sentence `cur`; any other symbol joins it
RECURSIVE SplitFrom(_, _, _, _)
SplitFrom(text, i, cur, out) ==
  IF i > Len(text) THEN Append(out, cur)
  ELSE IF text[i] = " " /\ cur # <<>> /\ cur[Len(cur)] = "."
  THEN LET rest == { j \in i..Len(text) : text[j] # " " }
           next == IF rest = {} THEN Len(text) + 1
                   ELSE CHOOSE j \in rest : \A k \in rest : j <= k
       IN  SplitFrom(text, next, <<>>, Append(out, cur))
  ELSE SplitFrom(text, i + 1, Append(cur, text[i]), out)

\* core.js:416, the terms of a query given as its words: lowercased, and
\* only those of more than 2 characters ("is" has 2, the others 3)
Terms(q) ==
  LET lower == [ i \in 1..Len(q) |-> Lower(q[i]) ]
  IN  SelectSeq(lower, LAMBDA t : t # "is")

\* core.js:421-422, the score of sentence s: the terms its lowercased
\* text includes, counted with repetition
SentenceScore(s, terms) ==
  Cardinality({ i \in 1..Len(terms) : \E j \in 1..Len(s) : Lower(s[j]) = terms[i] })

\* the loops of core.js:418-429 from sentence j of document i on
RECURSIVE SnippetsFrom(_, _, _, _, _, _)
SnippetsFrom(docs, terms, maxSnippets, i, j, out) ==
  IF i > Len(docs) THEN out
  ELSE LET sents == SplitFrom(docs[i].text, 1, <<>>, <<>>)
       IN  IF j > Len(sents) THEN SnippetsFrom(docs, terms, maxSnippets, i + 1, 1, out)
           ELSE IF SentenceScore(sents[j], terms) > 0
           THEN LET out1 == Append(out, [kind |-> "snippet", id |-> docs[i].id,
                                         len |-> docs[i].header + Len(sents[j]),
                                         sentence |-> sents[j]])
                IN  IF Len(out1) >= maxSnippets THEN out1
                    ELSE SnippetsFrom(docs, terms, maxSnippets, i, j + 1, out1)
           ELSE SnippetsFrom(docs, terms, maxSnippets, i, j + 1, out)

\* VectraClient.extractSnippets
extractSnippets(docs, q, maxSnippets) ==
  SnippetsFrom(docs, Terms(q), maxSnippets, 1, 1, <<>>)

\* core.js:579, the planned parts as elements of the context
PlannedParts(cl, docs) ==
  LET parts == buildContextParts(cl, docs)
  IN  [ i \in 1..Len(parts) |->
          [kind |-> "part", id |-> parts[i].id, len |-> parts[i].len, sentence |-> <<>>] ]

\* the context of a strict configuration with the snippets pushed behind
\* the planned parts
ContextParts_Push(cl, docs, q) ==
  LET g == cl.config.grounding
  IN  IF g.enabled
      THEN PlannedParts(cl, docs) \o
           extractSnippets(docs, q,
                           IF g.maxSnippets # 0 THEN g.maxSnippets ELSE DefaultMaxSnippets)
      ELSE PlannedParts(cl, docs)

\* core.js:579-588, the context parts queryRAG joins into the prompt
ContextParts(cl, docs, q) ==
  LET g        == cl.config.grounding
      parts    == PlannedParts(cl, docs)
      snippets == extractSnippets(docs, q,
                                  IF g.maxSnippets # 0 THEN g.maxSnippets
                                  ELSE DefaultMaxSnippets)
  IN  IF g.enabled
      THEN IF g.strict THEN snippets ELSE parts \o snippets
      ELSE parts

\* the calls of the grounding model: documents of one sentence, of two
\* sentences, of a full stop with no blank behind it, and of no matching
\* word
GroundingCalls(base) ==
  { [op |-> "contextParts", docs |-> ds, query |-> q, done |-> FALSE, out |-> <<>>,
     cfg |-> [base EXCEPT !.grounding =
                [enabled |-> en, strict |-> st, maxSnippets |-> ms]]] :
      ds \in SeqsUpTo(
        { [id |-> "g1", header |-> 3, summary |-> 9, content |-> 9,
           text |-> <<"Cat", ".", " ", " ", "dog", ".">>],
          [id |-> "g2", header |-> 3, summary |-> 0, content |-> 7,
           text |-> <<"tea", ".", "cat">>],
          [id |-> "g3", header |-> 3, summary |-> 0, content |-> 6,
           text |-> <<"tea", " ", "is">>],
          [id |-> "g4", header |-> 3, summary |-> 5, content |-> 12,
           text |-> <<"dog", " ", "cat", ".", " ", "tea", ".">>] }, MaxDocs - 1),
      q \in { <<"Cat">>, <<"is", "dog">>, <<"is">>, <<"cat", "tea">> },
      en \in BOOLEAN, st \in BOOLEAN, ms \in 0..MaxDocs - 1 }

\* the context of a query is assembled
ApplyContextParts ==
  /\ fn.op = "contextParts"
  /\ ~fn.done
  /\ fn' = [fn EXCEPT !.done = TRUE, !.out = ContextParts(client, fn.docs, fn.query)]
  /\ UNCHANGED clientVars

(***************************************************************************)
(* Reciprocal rank fusion (core.js:433-446).  A document is its content,   *)
(* the key it is fused under.  A score is kept exactly, as the numerator   *)
(* over the common denominator RRFDenominator(k).                          *)
(***************************************************************************)
\* the contents of the model; "7" is a canonical array index, which an
\* object enumerates ahead of its other keys
RRFContents == {"d1", "d2", "d3", "d4", "7"}

IsArrayIndex(content) == content = "7"

\* the (content, rank) pairs in the order the loops of core.js:436-442
\* visit them
RECURSIVE RRFEntries(_)
RRFEntries(docLists) ==
  IF docLists = <<>> THEN <<>>
  ELSE [ i \in 1..Len(Head(docLists)) |-> [content |-> Head(docLists)[i], rank |-> i - 1] ]
       \o RRFEntries(Tail(docLists))

\* the product of the k + rank + 1 of every rank a list can have, one
\* insertion included
RECURSIVE RRFDenominator_(_, _)
RRFDenominator_(k, rank) ==
  IF rank < 0 THEN 1 ELSE (k + rank + 1) * RRFDenominator_(k, rank - 1)

RRFDenominator(k) == RRFDenominator_(k, MaxRank)

RECURSIVE SumTerms(_, _, _)
SumTerms(entries, content, k) ==
  IF entries = <<>> THEN 0
  ELSE (IF Head(entries).content = content
        THEN RRFDenominator(k) \div (k + Head(entries).rank + 1) ELSE 0)
       + SumTerms(Tail(entries), content, k)

\* a score that keeps the term of the last rank only (= for += at line 440)
RRFScore_LastRank(content, docLists, k) ==
  LET entries == RRFEntries(docLists)
      at      == { i \in 1..Len(entries) : entries[i].content = content }
  IN  IF at = {} THEN 0
      ELSE RRFDenominator(k) \div
             (k + entries[CHOOSE i \in at : \A j \in at : j <= i].rank + 1)

\* core.js:439-440, scores[content] after the loops
RRFScore(content, docLists, k) == SumTerms(RRFEntries(docLists), content, k)

\* the contents in the order of their first occurrence
RECURSIVE Discovered(_, _)
Discovered(entries, seen) ==
  IF entries = <<>> THEN seen
  ELSE Discovered(Tail(entries),
                  IF Head(entries).content \in Range(seen) THEN seen
                  ELSE Append(seen, Head(entries).content))

\* Object.keys(scores), core.js:443: the array-index keys in ascending
\* order (the model has one), then the other keys in insertion order
ObjectKeys(inserted) ==
  SelectSeq(inserted, IsArrayIndex) \o SelectSeq(inserted, LAMBDA c : ~IsArrayIndex(c))

\* the fusion with the comparator of line 444 turned round
reciprocalRankFusion_Ascending(docLists, k) ==
  LET keys   == ObjectKeys(Discovered(RRFEntries(docLists), <<>>))
      scored == [ i \in 1..Len(keys) |->
                    [content |-> keys[i], score |-> 0 - RRFScore(keys[i], docLists, k)] ]
      sorted == SortByScoreDesc(scored)
  IN  [ i \in 1..Len(sorted) |-> sorted[i].content ]

\* VectraClient.reciprocalRankFusion
reciprocalRankFusion(docLists, k) ==
  LET keys   == ObjectKeys(Discovered(RRFEntries(docLists), <<>>))
      scored == [ i \in 1..Len(keys) |->
                    [content |-> keys[i], score |-> RRFScore(keys[i], docLists, k)] ]
      sorted == SortByScoreDesc(scored)
  IN  [ i \in 1..Len(sorted) |-> sorted[i].content ]

\* the result lists of up to n documents: a search returns a document once
ResultLists(n) ==
  { l \in SeqsUpTo(RRFContents, n) : \A i, j \in 1..Len(l) : l[i] = l[j] => i = j }

\* the calls of the fusion model: two result lists, fused with the
\* default constant or with the one of the multi-query strategy
RRFCalls(base) ==
  { [op |-> "reciprocalRankFusion", docLists |-> <<l1, l2>>, k |-> k,
     done |-> FALSE, out |-> <<>>, cfg |-> base] :
      l1 \in ResultLists(MaxRank), l2 \in ResultLists(MaxRank - 1),
      k \in {DefaultRRFK, MultiQueryRRFK} }

\* result lists are fused
ApplyReciprocalRankFusion ==
  /\ fn.op = "reciprocalRankFusion"
  /\ ~fn.done
  /\ fn' = [fn EXCEPT !.done = TRUE, !.out = reciprocalRankFusion(fn.docLists, fn.k)]
  /\ UNCHANGED clientVars

(***************************************************************************)
(* Maximal marginal relevance (core.js:448-500 and 543-547).  A content is *)
(* a sequence of words; lambda and the relevance scores are tenths; a      *)
(* Jaccard similarity is the pair of its numerator and its denominator.    *)
(***************************************************************************)
\* core.js:453-456, the set of the lowercased words of more than 2
\* characters
tokens(text) == { Lower(text[i]) : i \in { j \in 1..Len(text) : text[j] # "is" } }

\* core.js:458-465
jaccard(a, b) ==
  LET inter == Cardinality(a \cap b)
  IN  IF a = {} \/ b = {} \/ inter = 0 THEN [num |-> 0, den |-> 1]
      ELSE [num |-> inter, den |-> Cardinality(a) + Cardinality(b) - inter]

\* core.js:486, the largest similarity of d to a selected document
RECURSIVE MaxJaccard(_, _, _)
MaxJaccard(d, selected, div) ==
  IF selected = <<>> THEN div
  ELSE LET j == jaccard(tokens(d.content), tokens(Head(selected).content))
       IN  MaxJaccard(d, Tail(selected),
                      IF j.num * div.den > div.num * j.den THEN j ELSE div)

\* core.js:487, lam * rel - (1 - lam) * div as a fraction
MMRScore(d, selected, lam) ==
  LET div == MaxJaccard(d, selected, [num |-> 0, den |-> 1])
  IN  [num |-> lam * d.score * div.den - (LambdaScale - lam) * LambdaScale * div.num,
       den |-> LambdaScale * LambdaScale * div.den]

\* a scan that keeps the last of the documents of the best score
BestIdx_LastOnTies(pool, selected, lam) ==
  CHOOSE i \in 1..Len(pool) :
    \A j \in 1..Len(pool) :
      LET si == MMRScore(pool[i], selected, lam)
          sj == MMRScore(pool[j], selected, lam)
      IN  IF j > i THEN si.num * sj.den > sj.num * si.den
          ELSE si.num * sj.den >= sj.num * si.den

\* core.js:481-492, the scan of the pool: the first index of the best score
BestIdx(pool, selected, lam) ==
  CHOOSE i \in 1..Len(pool) :
    \A j \in 1..Len(pool) :
      LET si == MMRScore(pool[i], selected, lam)
          sj == MMRScore(pool[j], selected, lam)
      IN  IF j < i THEN si.num * sj.den > sj.num * si.den
          ELSE si.num * sj.den >= sj.num * si.den

\* the loop of core.js:480-497
RECURSIVE MMRLoop(_, _, _, _)
MMRLoop(pool, selected, kInt, lam) ==
  IF pool = <<>> \/ Len(selected) >= kInt THEN selected
  ELSE LET b == BestIdx(pool, selected, lam)
       IN  MMRLoop(SubSeq(pool, 1, b - 1) \o SubSeq(pool, b + 1, Len(pool)),
                   Append(selected, pool[b]), kInt, lam)

\* core.js:467-499 for a k of at least 1 and a lambda of 0..LambdaScale
MMRSelection(candidates, kInt, lam) ==
  IF candidates = <<>> THEN <<>>
  ELSE LET pool == SortByScoreDesc(candidates)
       IN  Slice(MMRLoop(Tail(pool), <<Head(pool)>>, kInt, lam), 0, kInt)

\* Math.max(0, Math.min(1, x)) on tenths
Clamp01(x) == Max(0, Min(LambdaScale, x))

\* VectraClient.mmrSelect: core.js:450 replaces a k of 0 by 1, core.js:451
\* a lambda of 0 by the default
mmrSelect(candidates, k, mmrLambda) ==
  MMRSelection(candidates,
               Max(1, IF k # 0 THEN k ELSE 1),
               Clamp01(IF mmrLambda # 0 THEN mmrLambda ELSE DefaultMmrLambda))

\* core.js:545, the lambda queryRAG hands to mmrSelect
QueryLambda(cl) ==
  IF cl.config.retrieval.mmrLambda # 0 THEN cl.config.retrieval.mmrLambda
  ELSE DefaultMmrLambda

\* the candidates of the model: A, B and C with J(A,B) = 4/5, J(A,C) = 1/10
\* and J(B,C) = 2/10, and D with no token
MMRContent(id) ==
  CASE id = "A" -> <<"w01", "w02", "w03", "w04">>
    [] id = "B" -> <<"w01", "w02", "w03", "w04", "w05">>
    [] id = "C" -> <<"w01", "w05", "w06", "w07", "w08", "w09", "w10">>
    [] OTHER    -> <<"is">>

\* the calls of the selection model: candidates in the order of the
\* search, k, and the configured lambda in tenths, out of range included
MMRCalls(base) ==
  { [op |-> "mmrSelect", candidates |-> cs, k |-> k, done |-> FALSE, out |-> <<>>,
     cfg |-> [base EXCEPT !.retrieval = [strategy |-> "mmr", mmrLambda |-> l]]] :
      cs \in { c \in SeqsUpTo({ [id |-> id, content |-> MMRContent(id), score |-> sc] :
                                  id \in {"A", "B", "C", "D"}, sc \in {5, 10} }, MaxDocs) :
                 \A i, j \in 1..Len(c) : c[i].id = c[j].id => i = j },
      k \in 0..MaxDocs,
      l \in {-5, 0, 2, 5, 10, 15} }

\* the candidates of a query are selected, core.js:545-547
ApplyMmrSelect ==
  /\ fn.op = "mmrSelect"
  /\ ~fn.done
  /\ fn' = [fn EXCEPT !.done = TRUE,
                      !.out = mmrSelect(fn.candidates, fn.k, QueryLambda(client))]
  /\ UNCHANGED clientVars

(***************************************************************************)
(* The reranker (reranker.js).  A reply of the backend is a sequence of    *)
(* characters, or its failure.                                             *)
(***************************************************************************)
BackendError == [error |-> TRUE, text |-> <<>>]

Reply(text) == [error |-> FALSE, text |-> text]

Digits == {"0", "1", "2", "3", "4", "5", "6", "7", "8", "9"}

DigitValue(ch) ==
  CHOOSE v \in 0..9 : <<"0", "1", "2", "3", "4", "5", "6", "7", "8", "9">>[v + 1] = ch

\* parseInt of the digits of text from index i on, with acc the value of
\* the digits before i
RECURSIVE ParseDigits(_, _, _)
ParseDigits(text, i, acc) ==
  IF i > Len(text) \/ text[i] \notin Digits THEN acc
  ELSE ParseDigits(text, i + 1, acc * 10 + DigitValue(text[i]))

\* reranker.js:21, res.match(/\d+/): the index of the first digit, 0 when
\* there is none
FirstDigit(text) ==
  LET at == { i \in 1..Len(text) : text[i] \in Digits }
  IN  IF at = {} THEN 0 ELSE CHOOSE i \in at : \A j \in at : i <= j

\* a scoreDocument with no catch: the backend's error is thrown on
scoreDocument_Rethrow(reply) ==
  IF reply.error THEN [threw |-> TRUE, score |-> 0]
  ELSE IF FirstDigit(reply.text) = 0 THEN [threw |-> FALSE, score |-> 0]
  ELSE [threw |-> FALSE, score |-> ParseDigits(reply.text, FirstDigit(reply.text), 0)]

\* LLMReranker.scoreDocument for the reply the backend gives
scoreDocument(reply) ==
  IF reply.error THEN [threw |-> FALSE, score |-> 0]
  ELSE IF FirstDigit(reply.text) = 0 THEN [threw |-> FALSE, score |-> 0]
  ELSE [threw |-> FALSE, score |-> ParseDigits(reply.text, FirstDigit(reply.text), 0)]

\* the replies of the model: a failure, integers, no digit, an integer
\* within a sentence
ScoreReplies ==
  { BackendError, Reply(<<"7">>), Reply(<<"1", "0">>), Reply(<<"n", "o">>),
    Reply(<<"a", " ", "3", "/", "1", "0">>) }

\* the calls of the reranker model: the documents, the reply to the
\* scoring prompt of each, and the configured topN
RerankCalls(base) ==
  UNION { { [op |-> "rerank", docs |-> ds, replies |-> rs, done |-> FALSE,
             failed |-> FALSE, out |-> <<>>,
             cfg |-> [base EXCEPT !.reranking = [enabled |-> TRUE, topN |-> n]]] :
              rs \in [1..Len(ds) -> ScoreReplies], n \in 0..MaxDocs } :
          ds \in { d \in SeqsUpTo({ [id |-> id, score |-> 1] : id \in {"r1", "r2", "r3"} },
                                  MaxDocs) :
                     \A i, j \in 1..Len(d) : d[i] = d[j] => i = j } }

\* LLMReranker.rerank: Promise.all rejects when a scoreDocument throws
ApplyRerank ==
  /\ fn.op = "rerank"
  /\ ~fn.done
  /\ LET scored == [ i \in 1..Len(fn.docs) |-> scoreDocument(fn.replies[i]) ]
     IN  IF \E i \in 1..Len(scored) : scored[i].threw
         THEN fn' = [fn EXCEPT !.done = TRUE, !.failed = TRUE]
         ELSE fn' = [fn EXCEPT !.done = TRUE,
                       !.out = rerank(fn.docs, [ i \in 1..Len(scored) |-> scored[i].score ],
                                      client.config.reranking.topN)]
  /\ UNCHANGED clientVars

(***************************************************************************)
(* The queries of the multi-query strategy (core.js:377-388 and 529-540).  *)
(* A reply is a sequence of symbols: query texts, the blank and the line   *)
(* feed for the rewritten queries; JSON tokens and code fences for the     *)
(* hypothetical questions ("FENCE_JSON" and "FENCE" are the opening and    *)
(* the closing code fence).  A call gives [threw, value].                  *)
(***************************************************************************)
\* response.split('\n') from symbol i on
RECURSIVE SplitLines(_, _, _, _)
SplitLines(text, i, cur, out) ==
  IF i > Len(text) THEN Append(out, cur)
  ELSE IF text[i] = "\n" THEN SplitLines(text, i + 1, <<>>, Append(out, cur))
  ELSE SplitLines(text, i + 1, Append(cur, text[i]), out)

\* String.prototype.trim
RECURSIVE Trim(_)
Trim(text) ==
  IF text = <<>> THEN <<>>
  ELSE IF Head(text) \in {" ", "\n"} THEN Trim(Tail(text))
  ELSE IF text[Len(text)] \in {" ", "\n"} THEN Trim(SubSeq(text, 1, Len(text) - 1))
  ELSE text

\* VectraClient.generateMultiQueries
generateMultiQueries(reply) ==
  IF reply.error THEN [threw |-> TRUE, value |-> <<>>]
  ELSE [threw |-> FALSE,
        value |-> Slice(SelectSeq(SplitLines(reply.text, 1, <<>>, <<>>),
                                  LAMBDA line : Len(Trim(line)) > 0), 0, MaxGenerated)]

\* JSON.parse of a token sequence: an array of strings, an empty object or
\* one string; anything else is a syntax error
JSONparseTokens(toks) ==
  LET inner == SubSeq(toks, 2, Len(toks) - 1)
      IsStr(t) == t \in {"h1", "h2", "h3", "h4"}
  IN  IF Len(toks) >= 2 /\ toks[1] = "[" /\ toks[Len(toks)] = "]"
         /\ (inner = <<>> \/ (/\ Len(inner) % 2 = 1
                              /\ \A i \in 1..Len(inner) :
                                   IF i % 2 = 1 THEN IsStr(inner[i]) ELSE inner[i] = ","))
      THEN [threw |-> FALSE, isArray |-> TRUE,
            value |-> SelectSeq(inner, LAMBDA t : t # ",")]
      ELSE IF toks = <<"{", "}">> \/ (Len(toks) = 1 /\ IsStr(toks[1]))
      THEN [threw |-> FALSE, isArray |-> FALSE, value |-> <<>>]
      ELSE [threw |-> TRUE, isArray |-> FALSE, value |-> <<>>]

\* core.js:386, the reply without its code fences, trimmed
Clean(text) == Trim(SelectSeq(text, LAMBDA t : t \notin {"FENCE_JSON", "FENCE"}))

\* a generateHypotheticalQuestions whose try block holds the backend call
generateHypotheticalQuestions_Guarded(reply) ==
  IF reply.error THEN [threw |-> FALSE, value |-> <<>>]
  ELSE LET arr == JSONparseTokens(Clean(reply.text))
       IN  [threw |-> FALSE,
            value |-> IF ~arr.threw /\ arr.isArray THEN Slice(arr.value, 0, MaxGenerated)
                      ELSE <<>>]

\* VectraClient.generateHypotheticalQuestions: the backend call of line 385
\* is outside the try block of line 387
generateHypotheticalQuestions(reply) ==
  IF reply.error THEN [threw |-> TRUE, value |-> <<>>]
  ELSE LET arr == JSONparseTokens(Clean(reply.text))
       IN  [threw |-> FALSE,
            value |-> IF ~arr.threw /\ arr.isArray THEN Slice(arr.value, 0, MaxGenerated)
                      ELSE <<>>]

\* the calls of the multi-query model: the reply to the rewriting prompt,
\* the reply to the hypothetical-questions prompt, and whether
\* queryPlanning is configured
MultiQueryCalls(base) ==
  { [op |-> "multiQuery", query |-> "q0", multi |-> m, hyp |-> h, done |-> FALSE,
     failed |-> FALSE, out |-> <<>>,
     cfg |-> [base EXCEPT !.retrieval.strategy = "multi_query",
                                !.queryPlanning.present = qp]] :
      m \in { BackendError,
              Reply(<<"q1", "\n", "q2", "\n", "q3", "\n", "q4">>),
              Reply(<<" ", "q1", "\n", "\n", " ", "\n", "q2">>),
              Reply(<<>>) },
      h \in { BackendError,
              Reply(<<"FENCE_JSON", "\n", "[", "h1", ",", "h2", "]", "\n", "FENCE">>),
              Reply(<<"[", "h1", ",", "h2", ",", "h3", ",", "h4", "]">>),
              Reply(<<"[", "]">>),
              Reply(<<"h1">>),
              Reply(<<"{", "}">>),
              Reply(<<"h1", "[", "h2", "]">>),
              Reply(<<"[", "h1", ",", "]">>) },
      qp \in BOOLEAN }

\* core.js:529-540, the queries the multi-query strategy searches: an
\* error of either generation rejects queryRAG before any search
ApplyMultiQuery ==
  /\ fn.op = "multiQuery"
  /\ ~fn.done
  /\ LET queries == generateMultiQueries(fn.multi)
         hyps    == generateHypotheticalQuestions(fn.hyp)
     IN  IF queries.threw
         THEN fn' = [fn EXCEPT !.done = TRUE, !.failed = TRUE]
         ELSE IF client.config.queryPlanning.present
         THEN IF hyps.threw
              THEN fn' = [fn EXCEPT !.done = TRUE, !.failed = TRUE]
              ELSE fn' = [fn EXCEPT !.done = TRUE,
                            !.out = queries.value \o hyps.value \o <<fn.query>>]
         ELSE fn' = [fn EXCEPT !.done = TRUE, !.out = Append(queries.value, fn.query)]
  /\ UNCHANGED clientVars

(***************************************************************************)
(* evaluate (core.js:769-782).  A judged number is [nan, tenths].          *)
(***************************************************************************)
NaN == [nan |-> TRUE, tenths |-> 0]

Num(tenths) == [nan |-> FALSE, tenths |-> tenths]

\* parseFloat of a sequence of characters, to the first decimal
parseFloat(text) ==
  LET t      == Trim(text)
      signed == t # <<>> /\ t[1] \in {"-", "+"}
      from   == IF signed THEN 2 ELSE 1
      stop   == { i \in from..Len(t) : t[i] \notin Digits }
      end    == IF stop = {} THEN Len(t) + 1 ELSE CHOOSE i \in stop : \A j \in stop : i <= j
      int    == ParseDigits(t, from, 0)
      hasDec == end + 1 <= Len(t) /\ t[end] = "." /\ t[end + 1] \in Digits
      mag    == int * LambdaScale + (IF hasDec THEN DigitValue(t[end + 1]) ELSE 0)
  IN  IF end = from /\ ~hasDec THEN NaN
      ELSE Num(IF signed /\ t[1] = "-" THEN 0 - mag ELSE mag)

\* a judgement that puts 0 for a reply that is no number
Judge_ZeroOnNaN(reply) ==
  IF reply.error \/ parseFloat(reply.text).nan THEN Num(0)
  ELSE Num(Clamp01(parseFloat(reply.text).tenths))

\* core.js:777-778: 0 when the backend call throws, else
\* Math.max(0, Math.min(1, parseFloat(String(reply)))), NaN for NaN
Judge(reply) ==
  IF reply.error THEN Num(0)
  ELSE IF parseFloat(reply.text).nan THEN NaN
  ELSE Num(Clamp01(parseFloat(reply.text).tenths))

\* the replies of the judge
JudgeReplies ==
  { BackendError, Reply(<<"0", ".", "7">>), Reply(<<" ", "2">>), Reply(<<"-", "1">>),
    Reply(<<"y", "e", "s">>) }

\* the calls of the evaluation model: per test item the replies to the
\* faithfulness and to the relevance prompt; observability is on or off
EvaluateCalls(base) ==
  { [op |-> "evaluate", testSet |-> ts, done |-> FALSE, failed |-> FALSE, out |-> <<>>,
     cfg |-> [base EXCEPT !.observability.enabled = ob]] :
      ts \in SeqsUpTo([faith : JudgeReplies, rel : JudgeReplies], MaxItems),
      ob \in BOOLEAN }

\* VectraClient.evaluate: queryRAG throws on the null logger of a client
\* with observability off (core.js:567), and evaluate does not catch it
ApplyEvaluate ==
  /\ fn.op = "evaluate"
  /\ ~fn.done
  /\ IF fn.testSet # <<>> /\ client.logger = "null"
     THEN fn' = [fn EXCEPT !.done = TRUE, !.failed = TRUE]
     ELSE fn' = [fn EXCEPT !.done = TRUE,
                   !.out = [ i \in 1..Len(fn.testSet) |->
                               [faithfulness |-> Judge(fn.testSet[i].faith),
                                relevance    |-> Judge(fn.testSet[i].rel)] ]]
  /\ UNCHANGED clientVars

(***************************************************************************)
(* The helpers of the client on their own: a client is built from the      *)
(* configuration of a call, and the helper the call names is applied to    *)
(* the arguments of the call.                                              *)
(***************************************************************************)
\* the calls on clients whose configuration is `base` but for the options
\* the helper reads
(***************************************************************************)
(* Agentic chunking (observability.js:333-361).  A text is a sequence of   *)
(* characters; a reply of the backend is a sequence of JSON tokens, or its *)
(* failure.  The windows are what recursiveSplit(text) returns.            *)
(***************************************************************************)
\* the string literals of the replies, with the strings they denote
StringLiterals == {"\"a b\"", "\" a  b \"", "\"de\"", "\"c\"", "\"  \""}

StringValue(lit) ==
  CASE lit = "\"a b\""    -> <<"a", " ", "b">>
    [] lit = "\" a  b \"" -> <<" ", "a", " ", " ", "b", " ">>
    [] lit = "\"de\""     -> <<"d", "e">>
    [] lit = "\"c\""      -> <<"c">>
    [] lit = "\"  \""     -> <<" ", " ">>

\* the literals that are not strings
OtherLiterals == {"7"}

\* JSON.parse of a token sequence: an array of literals, an empty object
\* or one literal; anything else is a syntax error
JSONparseList(toks) ==
  LET inner == SubSeq(toks, 2, Len(toks) - 1)
      IsLit(t) == t \in StringLiterals \cup OtherLiterals
  IN  IF Len(toks) >= 2 /\ toks[1] = "[" /\ toks[Len(toks)] = "]"
         /\ (inner = <<>> \/ (/\ Len(inner) % 2 = 1
                              /\ \A i \in 1..Len(inner) :
                                   IF i % 2 = 1 THEN IsLit(inner[i]) ELSE inner[i] = ","))
      THEN [threw |-> FALSE, isArray |-> TRUE,
            value |-> SelectSeq(inner, LAMBDA t : t # ",")]
      ELSE IF toks = <<"{", "}">> \/ (Len(toks) = 1 /\ IsLit(toks[1]))
      THEN [threw |-> FALSE, isArray |-> FALSE, value |-> <<>>]
      ELSE [threw |-> TRUE, isArray |-> FALSE, value |-> <<>>]

\* String.prototype.replace(/\s+/g, ' ')
RECURSIVE CollapseSpaces(_)
CollapseSpaces(text) ==
  IF text = <<>> THEN <<>>
  ELSE IF Head(text) \in {" ", "\n"}
       THEN IF Len(text) > 1 /\ text[2] \in {" ", "\n"}
            THEN CollapseSpaces(Tail(text))
            ELSE <<" ">> \o CollapseSpaces(Tail(text))
       ELSE <<Head(text)>> \o CollapseSpaces(Tail(text))

\* observability.js:348: item.trim().replace(/\s+/g, ' ')
Norm(item) == CollapseSpaces(Trim(StringValue(item)))

\* observability.js:345-351: the chunks pushed for the first k items of
\* a parsed array; dedup holds the chunks pushed so far
RECURSIVE Propositions(_, _)
Propositions(parsed, k) ==
  IF k = 0 THEN <<>>
  ELSE LET before == Propositions(parsed, k - 1)
           item   == parsed[k]
       IN  IF item \in StringLiterals /\ Len(Norm(item)) > 1 /\ Norm(item) \notin Range(before)
           THEN Append(before, Norm(item))
           ELSE before

\* a loop body that falls back to the window when no item was pushed
WindowChunks_Fallback(window, reply) ==
  IF reply.error THEN <<window>>
  ELSE LET parsed == JSONparseList(Clean(reply.text))
           props  == Propositions(parsed.value, Len(parsed.value))
       IN  IF parsed.threw \/ ~parsed.isArray \/ props = <<>> THEN <<window>>
           ELSE props

\* observability.js:337-358: the body of the loop over the windows, with
\* the reply of the backend to the prompt of this window
WindowChunks(window, reply) ==
  IF reply.error THEN <<window>>
  ELSE LET parsed == JSONparseList(Clean(reply.text))
       IN  IF parsed.threw THEN <<window>>
           ELSE IF parsed.isArray THEN Propositions(parsed.value, Len(parsed.value))
           ELSE <<window>>

\* DocumentProcessor.agenticSplit: per window, the chunks pushed for it;
\* finalChunks is their concatenation
agenticSplit(windows, replies) ==
  [ i \in DOMAIN windows |-> WindowChunks(windows[i], replies[i]) ]

\* the literal lists of at most n items, as token sequences
RECURSIVE Listed(_)
Listed(items) ==
  IF items = <<>> THEN <<>>
  ELSE IF Len(items) = 1 THEN items
  ELSE <<Head(items), ",">> \o Listed(Tail(items))

AgenticReplies(n) ==
  { Reply(<<"[">> \o Listed(items) \o <<"]">>) :
      items \in SeqsUpTo(StringLiterals \cup OtherLiterals, n) }
  \cup { BackendError,
         Reply(<<"FENCE_JSON", "\n", "[", "\"a b\"", ",", "\"de\"", "]", "\n", "FENCE">>),
         Reply(<<"{", "}">>),
         Reply(<<"\"a b\"">>),
         Reply(<<"[", "\"a b\"", ",", "]">>),
         Reply(<<>>) }

\* the calls of the chunking model: one or two windows and the reply to
\* the prompt of each
AgenticCalls(base) ==
  { [op |-> "agenticSplit", windows |-> <<<<"w", "1", ".">>>>, replies |-> <<r>>,
     done |-> FALSE, out |-> <<>>, cfg |-> base] : r \in AgenticReplies(MaxItems) }
  \cup
  { [op |-> "agenticSplit", windows |-> << <<"w", "1", ".">>, <<"w", "2", ".">> >>,
     replies |-> <<r1, r2>>, done |-> FALSE, out |-> <<>>, cfg |-> base] :
      r1 \in AgenticReplies(MaxItems),
      r2 \in { BackendError, Reply(<<"[", "]">>), Reply(<<"[", "\"a b\"", "]">>) } }

\* DocumentProcessor.agenticSplit applied to the windows of a text
ApplyAgenticSplit ==
  /\ fn.op = "agenticSplit"
  /\ ~fn.done
  /\ fn' = [fn EXCEPT !.done = TRUE, !.out = agenticSplit(fn.windows, fn.replies)]
  /\ UNCHANGED clientVars

HelperCalls(base) ==
  PlanCalls(base) \cup GroundingCalls(base) \cup RRFCalls(base) \cup MMRCalls(base)
    \cup RerankCalls(base) \cup MultiQueryCalls(base) \cup EvaluateCalls(base)
    \cup AgenticCalls(base)

InitHelpers ==
  /\ fn \in HelperCalls(BaseConfig)
  /\ InitClient({fn.cfg})

NextHelpers ==
  \/ ApplyBuildContextParts
  \/ ApplyContextParts
  \/ ApplyReciprocalRankFusion
  \/ ApplyMmrSelect
  \/ ApplyRerank
  \/ ApplyMultiQuery
  \/ ApplyEvaluate
  \/ ApplyAgenticSplit

SpecHelpers == InitHelpers /\ [][NextHelpers]_vars

(***************************************************************************)
(* queryRAG(query, filter, true): the streaming branch (core.js:611-696).  *)
(* An element of the backend stream is an object with a delta, a bare      *)
(* string, or an object without a delta.                                   *)
(***************************************************************************)
MaxChunks == 2

StreamChunks ==
  { [type |-> "object", delta |-> "a"],
    [type |-> "string", delta |-> "b"],
    [type |-> "object", delta |-> ""] }

\* core.js:635: (chunk && chunk.delta) ? chunk.delta
\*              : (typeof chunk === 'string' ? chunk : '')
Delta(chunk) ==
  IF chunk.type = "object" /\ chunk.delta # "" THEN chunk.delta
  ELSE IF chunk.type = "string" THEN chunk.delta
  ELSE ""

\* core.js:637: yield chunk
Yielded(chunk) == chunk

\* core.js:572-628, 696: the prompt is built, onGenerationStart emitted, the
\* start of the stream traced and llm.generateStream awaited; the call
\* returns the generator wrappedStream(), of which nothing has run yet
GenerateStream(p) ==
  /\ query[p].pc = "generate"
  /\ \E fail \in {"none", "unsupported"} \cup
                 (IF faults > 0
                  THEN {"generateStream"} \cup
                       (IF Remote(history) /\ query[p].sessionId # NoSession
                        THEN {"getRecent"} ELSE {})
                  ELSE {}) :
       LET q      == query[p]
           remember == client.history # "null" /\ q.sessionId # NoSession
           recent == IF remember
                     THEN ProjectAll(getRecent(history, q.sessionId, DefaultRecent, fail # "getRecent"))
                     ELSE <<>>
           t1     == trigger(client, <<"onGenerationStart">>)
           q1     == [q EXCEPT !.recent = recent, !.events = @ \o t1.emitted,
                               !.envFailed = (fail \in {"generateStream", "getRecent"})]
       IN  /\ query' = [query EXCEPT ![p] =
                 IF t1.threw THEN ThrowQuery(client, q1, "HandlerError")
                 ELSE IF fail = "unsupported" THEN ThrowQuery(client, q1, "Error")
                 ELSE IF client.logger = "null" THEN ThrowQuery(client, q1, "TypeError")
                 ELSE IF fail = "generateStream" THEN ThrowQuery(client, q1, "LLMError")
                 ELSE [q1 EXCEPT !.pc = "streaming", !.result = "stream"]]
           /\ faults' = IF fail \in {"none", "unsupported"} THEN faults ELSE faults - 1
  /\ UNCHANGED <<config, client, calls, history, lastGet>>
  /\ UNCHANGED ingestVars

\* core.js:634-638: one round of the for-await loop; the backend stream
\* produces chunk, its delta is added to fullAnswer and chunk is yielded
StreamNext(p, chunk) ==
  /\ query[p].pc = "streaming"
  /\ Len(query[p].produced) < MaxChunks
  /\ query' = [query EXCEPT ![p] =
        [@ EXCEPT !.produced   = Append(@, chunk),
                  !.fullAnswer = @ \o Delta(chunk),
                  !.yielded    = Append(@, Yielded(chunk))]]
  /\ UNCHANGED <<config, client, calls, faults, history, lastGet>>
  /\ UNCHANGED ingestVars

\* core.js:639-652: the backend stream rejects with e; the catch block of
\* wrappedStream emits onError, traces the error and rethrows
StreamFail(p) ==
  /\ query[p].pc = "streaming"
  /\ faults > 0
  /\ faults' = faults - 1
  /\ query' = [query EXCEPT ![p] =
        [@ EXCEPT !.pc = "done", !.ended = "error", !.envFailed = TRUE,
                  !.events = Append(@, "onError"),
                  !.streamError = CatchQuery(client, "StreamError")]]
  /\ UNCHANGED <<config, client, calls, history, lastGet>>
  /\ UNCHANGED ingestVars

\* core.js:654-694: the backend stream is exhausted; onGenerationEnd is
\* emitted with fullAnswer and the generation traced
StreamEnd(p) ==
  /\ query[p].pc = "streaming"
  /\ LET t == trigger(client, <<"onGenerationEnd">>)
     IN  query' = [query EXCEPT ![p] =
           [@ EXCEPT !.pc = "done", !.ended = "end", !.generated = TRUE,
                     !.events = @ \o t.emitted,
                     !.answer = query[p].fullAnswer,
                     !.streamError = IF t.threw THEN "HandlerError" ELSE "none"]]
  /\ UNCHANGED <<config, client, calls, faults, history, lastGet>>
  /\ UNCHANGED ingestVars

\* the consumer stops reading: return() on a generator suspended at the
\* yield of core.js:637 completes it without running anything further
StreamReturn(p) ==
  /\ query[p].pc = "streaming"
  /\ query' = [query EXCEPT ![p] = [@ EXCEPT !.pc = "done", !.ended = "return"]]
  /\ UNCHANGED <<config, client, calls, faults, history, lastGet>>
  /\ UNCHANGED ingestVars

StreamConfigs ==
  { [BaseConfig EXCEPT !.observability.enabled = ob, !.callbacks = h] :
      ob \in BOOLEAN, h \in QueryThrowingHandlers }

InitStream == InitWith(StreamConfigs)

NextStream ==
  \E p \in Procs :
    \/ \E text \in Queries, sessionId \in Sessions \cup {NoSession} : StartQuery(p, text, sessionId)
    \/ Retrieve(p)
    \/ GenerateStream(p)
    \/ \E chunk \in StreamChunks : StreamNext(p, chunk)
    \/ StreamFail(p)
    \/ StreamEnd(p)
    \/ StreamReturn(p)

SpecStream == InitStream /\ [][NextStream]_vars

(***************************************************************************)
(* The loop that splits the chunks to embed into batches (core.js:215),    *)
(* round by round, for any concurrencyLimit the schema accepts             *)
(* (callbacks.js:137, z.number()).                                         *)
(***************************************************************************)
\* the values of ingestion.concurrencyLimit of the batching model
ConcurrencyLimits == {-1, 0, 1, 2, DefaultConcurrencyLimit}

\* the model keeps the first MaxRounds batches, one more than a partition
\* of the chunks into non-empty batches has; of a loop that runs on it
\* keeps the parity of the rounds, and i down to -Len(toEmbed) - 1, below
\* which every slice is empty and the loop condition stays true
MaxRounds == MaxDocs + 1

\* Array.prototype.slice(start, end): a negative index counts from the end
ArraySlice(arr, start, end) ==
  LET len      == Len(arr)
      Rel(k)   == IF k < 0 THEN Max(len + k, 0) ELSE Min(k, len)
      from     == Rel(start)
      final    == Rel(end)
  IN  [ i \in 1..Max(final - from, 0) |-> arr[from + i] ]

\* the chunks to embed and the configurations of the batching model
BatchingCalls(base) ==
  { [ op |-> "batching",
      cfg |-> [base EXCEPT !.ingestion.rateLimitEnabled = rl,
                           !.ingestion.concurrencyLimit = l],
      toEmbed |-> t, i |-> 0, batches |-> <<>>, round |-> 0, done |-> FALSE ] :
      rl \in BOOLEAN, l \in ConcurrencyLimits,
      t \in SeqsUpTo({"x", "y"}, MaxDocs) \ {<<>>} }

\* core.js:215, one round: batches.push(toEmbed.slice(i, i + limit)); i += limit
BatchPush ==
  /\ fn.op = "batching"
  /\ ~fn.done
  /\ fn.i < Len(fn.toEmbed)
  /\ LET limit == BatchLimit(client, Len(fn.toEmbed))
         batch == ArraySlice(fn.toEmbed, fn.i, fn.i + limit)
     IN  fn' = [fn EXCEPT !.batches = IF Len(@) < MaxRounds THEN Append(@, batch) ELSE @,
                          !.i = Max(@ + limit, 0 - Len(fn.toEmbed) - 1),
                          !.round = 1 - @]
  /\ UNCHANGED clientVars

\* core.js:215, the loop condition i < toEmbed.length is false
BatchExit ==
  /\ fn.op = "batching"
  /\ ~fn.done
  /\ fn.i >= Len(fn.toEmbed)
  /\ fn' = [fn EXCEPT !.done = TRUE]
  /\ UNCHANGED clientVars

InitBatching ==
  /\ fn \in BatchingCalls(BaseConfig)
  /\ InitClient({fn.cfg})

NextBatching == BatchPush \/ BatchExit

\* the loop is synchronous code: it runs on while its condition holds
SpecBatching == InitBatching /\ [][NextBatching]_vars /\ WF_vars(NextBatching)

(***************************************************************************)
(* Concurrent ingests: two callers run ingestDocuments on one client; the  *)
(* calls interleave at their awaits.                                       *)
(***************************************************************************)
Callers == {1, 2}

\* the failures of the environment in a run of the concurrent model
ConcurrentFaults == 1

ConcurrentConfigs ==
  { [BaseConfig EXCEPT !.observability.enabled = ob,
                       !.database.type = k,
                       !.ingestion.rateLimitEnabled = rl,
                       !.ingestion.concurrencyLimit = IF rl THEN 1 ELSE DefaultConcurrencyLimit] :
      ob \in BOOLEAN, k \in StoreKinds, rl \in BOOLEAN }

InitConcurrent ==
  /\ config \in ConcurrentConfigs
  /\ client = VectraClient(config)
  /\ vectorStore = {}
  /\ nextId = 0
  /\ embeddingCache = EmptyCache
  /\ faults = ConcurrentFaults
  /\ calls = 0
  /\ call = [p \in Callers |-> IdleFrame]
  /\ history = NewHistory(client)
  /\ lastGet = NoGet
  /\ query = [p \in Procs |-> IdleQuery(history)]
  /\ fn = NoFn

NextConcurrent ==
  \E p \in Callers :
    \/ \E f \in FileVersions : StartIngest(p, f)
    \/ Begin(p)
    \/ CheckExists(p)
    \/ LoadAndChunk(p)
    \/ EmbedBatch(p)
    \/ Recheck(p)
    \/ WriteStore(p)

SpecConcurrent == InitConcurrent /\ [][NextConcurrent]_vars

(***************************************************************************)
(* Concurrent queries: two callers run a non-streaming queryRAG on one     *)
(* client.  The generation branch (core.js:698-751) is taken one await at  *)
(* a time, so that the history writes of the two calls can interleave.     *)
(***************************************************************************)
\* this query reads and writes the history store
Remembers(q) == client.history # "null" /\ q.sessionId # NoSession

\* core.js:572-698: the prompt is built with the recent history,
\* onGenerationStart emitted and llm.generate awaited
GenerateAnswer(p) ==
  /\ query[p].pc = "generate"
  /\ \E fail \in (IF faults > 0
                  THEN {"none", "generate"} \cup
                       (IF Remote(history) /\ query[p].sessionId # NoSession
                        THEN {"getRecent"} ELSE {})
                  ELSE {"none"}) :
       LET q      == query[p]
           recent == IF Remembers(q)
                     THEN ProjectAll(getRecent(history, q.sessionId, DefaultRecent, fail # "getRecent"))
                     ELSE <<>>
           t1     == trigger(client, <<"onGenerationStart">>)
           q1     == [q EXCEPT !.recent = recent, !.events = @ \o t1.emitted,
                               !.envFailed = (fail # "none")]
       IN  /\ query' = [query EXCEPT ![p] =
                 IF t1.threw THEN ThrowQuery(client, q1, "HandlerError")
                 ELSE IF fail = "generate" THEN ThrowQuery(client, q1, "LLMError")
                 ELSE [q1 EXCEPT !.pc = "addUser", !.generated = TRUE, !.answer = Answer]]
           /\ faults' = IF fail = "none" THEN faults ELSE faults - 1
  /\ UNCHANGED <<config, client, calls, history, lastGet>>
  /\ UNCHANGED ingestVars

\* core.js:699-703: add(sessionId, 'user', query), awaited
AppendUser(p) ==
  /\ query[p].pc = "addUser"
  /\ \E ok \in (IF faults > 0 /\ Remote(history) /\ Remembers(query[p])
                THEN BOOLEAN ELSE {TRUE}) :
       /\ history' = IF Remembers(query[p])
                     THEN addMessage(history, query[p].sessionId, "user", query[p].text, ok, ok)
                     ELSE history
       /\ faults' = IF ok THEN faults ELSE faults - 1
       /\ query' = [query EXCEPT ![p] =
             [@ EXCEPT !.pc = "addAssistant", !.envFailed = @ \/ ~ok]]
  /\ UNCHANGED <<config, client, calls, lastGet>>
  /\ UNCHANGED ingestVars

\* core.js:704-751: add(sessionId, 'assistant', answer), awaited, then
\* onGenerationEnd, the traces of the call and the return
AppendAssistant(p) ==
  /\ query[p].pc = "addAssistant"
  /\ \E ok \in (IF faults > 0 /\ Remote(history) /\ Remembers(query[p])
                THEN BOOLEAN ELSE {TRUE}) :
       LET q  == query[p]
           t2 == trigger(client, <<"onGenerationEnd">>)
           q2 == [q EXCEPT !.events = @ \o t2.emitted, !.envFailed = @ \/ ~ok]
       IN  /\ history' = IF Remembers(q)
                         THEN addMessage(history, q.sessionId, "assistant", q.answer, ok, ok)
                         ELSE history
           /\ faults' = IF ok THEN faults ELSE faults - 1
           /\ query' = [query EXCEPT ![p] =
                 IF t2.threw THEN ThrowQuery(client, q2, "HandlerError")
                 ELSE IF client.logger = "null" THEN ThrowQuery(client, q2, "TypeError")
                 ELSE [q2 EXCEPT !.pc = "done", !.result = "ok"]]
  /\ UNCHANGED <<config, client, calls, lastGet>>
  /\ UNCHANGED ingestVars

ConcurrentQueryConfigs ==
  { c \in QueryConfigs : c.memory.enabled /\ c.memory.type \in {"redis", "postgres"} }

InitConcurrentQuery ==
  /\ config \in ConcurrentQueryConfigs
  /\ client = VectraClient(config)
  /\ vectorStore = {}
  /\ nextId = 0
  /\ embeddingCache = EmptyCache
  /\ faults = ConcurrentFaults
  /\ calls = 0
  /\ call = [p \in Callers |-> IdleFrame]
  /\ history = NewHistory(client)
  /\ lastGet = NoGet
  /\ query = [p \in Callers |-> IdleQuery(history)]
  /\ fn = NoFn

NextConcurrentQuery ==
  \E p \in Callers :
    \/ \E text \in Queries, sessionId \in Sessions \cup {NoSession} : StartQuery(p, text, sessionId)
    \/ Retrieve(p)
    \/ GenerateAnswer(p)
    \/ AppendUser(p)
    \/ AppendAssistant(p)

SpecConcurrentQuery == InitConcurrentQuery /\ [][NextConcurrentQuery]_vars

(***************************************************************************)
(* Properties of ingestion.                                                *)
(***************************************************************************)
\* a single-file ingestDocuments call of caller p has ended
Done(p) == call[p].pc = "done"

\* ingestion.mode as configured, with the documented default
ConfiguredMode ==
  IF config.ingestion.mode = "none" THEN "skip" ELSE config.ingestion.mode

Emitted(p, ev) == \E i \in DOMAIN call[p].events : call[p].events[i] = ev

\* C1: in skip mode an ingest whose first fileExists check reports the
\* file emits onIngestSkipped, calls embedDocuments zero times and leaves
\* the store as it found it; and an ingest of a file version that a store
\* with fileExists already holds (the file ingested a second time) leaves
\* the store contents unchanged.
C1_SkipLeavesStoreUnchanged ==
  \A p \in Procs :
    /\ (call[p].existsFirst /\ call[p].pc \in {"done", "load", "embed", "recheck", "write"})
         => /\ call[p].pc = "done"
            /\ Emitted(p, "onIngestSkipped")
            /\ call[p].embedCalls = 0
            /\ ~call[p].wrote
            /\ vectorStore = call[p].storeBefore
    /\ (Done(p) /\ call[p].seenBefore /\ HasFileExists(Kind))
         => vectorStore = call[p].storeBefore

\* C1 witness: a second ingest of a stored file was skipped and returned
C1_Witness ==
  \E p \in Procs :
    /\ Done(p) /\ call[p].existsFirst /\ call[p].seenBefore
    /\ call[p].result = "ok"
    /\ Emitted(p, "onIngestSkipped")
    /\ RowsOf(vectorStore, call[p].file) # {}

\* C2: the configured mode is the mode ingestDocuments dispatches on: a
\* call is skipped only when skip is configured or no mode is given, and
\* with append or replace configured a file the store already reports is
\* ingested again all the same.
C2_ConfiguredModeIsDispatched ==
  \A p \in Procs :
    /\ Emitted(p, "onIngestSkipped") => ConfiguredMode = "skip"
    /\ (Done(p) /\ call[p].existsFirst /\ ConfiguredMode \in {"append", "replace"}
          /\ call[p].thrown = "none")
         => call[p].wrote

\* C3: in replace mode, ingesting a file the store already holds leaves the
\* same set of rows for that file as the first ingest did.
C3_ReplaceIsIdempotent ==
  \A p \in Procs :
    (Done(p) /\ ConfiguredMode = "replace" /\ call[p].seenBefore)
      => RowsOf(vectorStore, call[p].file) = RowsOf(call[p].storeBefore, call[p].file)

\* C4: an embedding batch is attempted at most 3 times with waits of 500 ms
\* and 1000 ms in between; when the third attempt fails the ingestion fails
\* with the embedding error, writes nothing and does not emit onIngestEnd.
C4_EmbedRetryThenFail ==
  \A p \in Procs :
    /\ call[p].batchTries <= 3
    /\ (call[p].pc = "embed" \/ call[p].thrown = "EmbedError")
         => call[p].sleeps \in {<<>>, <<500>>, <<500, 1000>>}
    /\ (Done(p) /\ call[p].thrown = "EmbedError")
         => /\ call[p].batchTries = 3
            /\ call[p].result = "EmbedError"
            /\ vectorStore = call[p].storeBefore
            /\ ~Emitted(p, "onIngestEnd")

\* C6: an exception thrown by a callback handler never changes the outcome
\* of the operation: no call ends with the handler's exception.
C6_HandlerExceptionsAreIsolated ==
  \A p \in Procs : call[p].result # "HandlerError"

\* C10: the id a chunk is stored under is a function of (fileSHA256,
\* chunkIndex) only: rows of the same file hash and chunk index have the
\* same id, whatever their path, time of ingestion or store.
C10_StoredIdIsContentAddressed ==
  \A r1, r2 \in vectorStore :
    (r1.fileSHA256 = r2.fileSHA256 /\ r1.chunkIndex = r2.chunkIndex) => r1.id = r2.id

(***************************************************************************)
(* Properties of directory ingestion.                                      *)
(***************************************************************************)
\* the entries of a listing that are not temporary files
NonTemporary(entries) == { i \in DOMAIN entries : ~isTemporaryFile(entries[i].name) }

\* how many of the visited entries ended with an error / without one
Raised(p) == Cardinality({ i \in DOMAIN call[p].outcomes : call[p].outcomes[i] # "ok" })

Stored(p) == Cardinality({ i \in DOMAIN call[p].outcomes : call[p].outcomes[i] = "ok" })

\* C5: a directory ingest visits every non-temporary entry even when
\* earlier entries fail and emits a summary with processed = succeeded +
\* failed and length(errors) = failed, failed being the number of entries
\* whose ingestion raised an error and succeeded the number of the others.
C5_DirectoryErrorsAreIsolated ==
  \A p \in Procs :
    (Done(p) /\ call[p].listed)
      => /\ Len(call[p].outcomes) = Cardinality(NonTemporary(call[p].listing))
         /\ Emitted(p, "onIngestSummary")
         /\ call[p].summary.processed = call[p].summary.succeeded + call[p].summary.failed
         /\ Len(call[p].summary.errors) = call[p].summary.failed
         /\ call[p].summary.failed = Raised(p)
         /\ call[p].summary.succeeded = Stored(p)


(***************************************************************************)
(* Properties of the history stores.                                       *)
(***************************************************************************)
\* C8: for the in-memory history, whatever addMessage calls were made,
\* every session holds at most maxMessages messages, and they are the most
\* recently added ones in insertion order.
C8_InMemoryHistoryIsBounded ==
  history.kind = "in-memory" =>
    \A s \in Sessions :
      /\ Len(history.sessions[s]) <= history.maxMessages
      /\ history.sessions[s] = LastN(history.added[s], history.maxMessages)

\* a session of the in-memory history that was sent more than maxMessages
\* messages and holds the last two of them
C8_Witness ==
  /\ history.kind = "in-memory"
  /\ history.maxMessages = 2
  /\ \E s \in Sessions :
       /\ Len(history.added[s]) > history.maxMessages
       /\ Len(history.sessions[s]) = 2
       /\ history.sessions[s][1].ts < history.sessions[s][2].ts

\* C9: for every history variant, a getRecent(sessionId, n) call that did
\* not fail returns at most n messages of the session, namely the most
\* recently added ones, oldest first (all n of them when the store keeps
\* that many).
C9_GetRecentReturnsMostRecent ==
  (lastGet.called /\ lastGet.ok /\ lastGet.sessionId # NoSession) =>
    LET added == ProjectAll(history.added[lastGet.sessionId])
    IN  /\ Len(lastGet.result) <= lastGet.n
        /\ lastGet.result = LastN(added, Len(lastGet.result))
        /\ lastGet.n <= history.maxMessages =>
             Len(lastGet.result) = Min(lastGet.n, Len(added))

(***************************************************************************)
(* Properties of queries.                                                  *)
(***************************************************************************)
\* C7: a non-streaming queryRAG with memory enabled and a sessionId, none
\* of whose external calls fails, generates an answer and appends exactly
\* two messages to that session, (user, query) then (assistant, answer);
\* a query that ends without a generated answer leaves the history store
\* as it was.
C7_QueryAppendsTwoMessages ==
  \A p \in Procs :
    LET q == query[p]
    IN  (q.pc = "done" /\ client.history # "null" /\ q.sessionId # NoSession) =>
          /\ (~q.envFailed /\ client.logger # "null" /\ client.callbacks = "none")
                => q.generated
          /\ (q.generated /\ ~q.envFailed) =>
                ProjectAll(history.added[q.sessionId]) =
                  ProjectAll(q.historyBefore.added[q.sessionId])
                    \o << [role |-> "user", content |-> q.text],
                          [role |-> "assistant", content |-> q.answer] >>
          /\ ~q.generated => history = q.historyBefore

(***************************************************************************)
(* Properties of the context planner.                                      *)
(***************************************************************************)
\* the token estimates of parts[1..n], summed
RECURSIVE EstSum(_, _)
EstSum(parts, n) ==
  IF n = 0 THEN 0 ELSE EstSum(parts, n - 1) + tokenEstimate(parts[n].len)

AreSnippets(ctx, from, docs, q, maxSnippets) ==
  /\ Len(ctx) - from + 1 <= maxSnippets
  /\ \A i \in from..Len(ctx) :
       /\ ctx[i].kind = "snippet"
       /\ \E k \in 1..Len(docs) :
            /\ docs[k].id = ctx[i].id
            /\ \E j \in 1..Len(SplitFrom(docs[k].text, 1, <<>>, <<>>)) :
                 ctx[i].sentence = SplitFrom(docs[k].text, 1, <<>>, <<>>)[j]
       /\ \E t \in Range(Terms(q)) :
            \E j \in 1..Len(ctx[i].sentence) : Lower(ctx[i].sentence[j]) = t

FusedExample ==
  /\ fn.op = "reciprocalRankFusion" /\ fn.done
  /\ fn.docLists = << <<"d1", "d2", "d3">>, <<"d2", "d4">> >>
  /\ fn.k = DefaultRRFK

\* C13 as the code has it: L1 = [d1, d2, d3] and L2 = [d2, d4] fused with
\* c = 60 give the order d2, d1, d4, d3 (scores 1/62 + 1/61, 1/61, 1/62
\* and 1/63).
C13_ExampleFusedOrder == FusedExample => fn.out = <<"d2", "d1", "d4", "d3">>

\* C13: L1 = [d1, d2, d3] and L2 = [d2, d4] fused with c = 60 give the
\* order d2, d1, d3, d4.
C13_ExampleFusedOrderAsStated == FusedExample => fn.out = <<"d2", "d1", "d3", "d4">>

\* the example has been fused, d4 of score 1/62 ahead of d3 of score 1/63
C13_Witness ==
  /\ FusedExample
  /\ RRFScore("d4", fn.docLists, fn.k) > RRFScore("d3", fn.docLists, fn.k)
  /\ Len(fn.out) = 4

\* the position of content d in a fused output, 0 when it is not in it
PositionIn(out, d) ==
  IF d \in Range(out) THEN CHOOSE i \in 1..Len(out) : out[i] = d ELSE 0

\* C14: the fused output holds each distinct content of the lists exactly
\* once, by descending sum of 1/(c + rank + 1), and contents of equal score
\* in the order of their first discovery.
C14_FusedByScoreThenDiscovery ==
  (fn.op = "reciprocalRankFusion" /\ fn.done) =>
    LET disc == Discovered(RRFEntries(fn.docLists), <<>>)
        S(d) == RRFScore(d, fn.docLists, fn.k)
    IN  /\ Len(fn.out) = Len(disc)
        /\ Range(fn.out) = Range(disc)
        /\ \A i, j \in 1..Len(fn.out) :
             i < j => \/ S(fn.out[i]) > S(fn.out[j])
                      \/ /\ S(fn.out[i]) = S(fn.out[j])
                         /\ PositionIn(disc, fn.out[i]) < PositionIn(disc, fn.out[j])

\* list i of docLists with d put at rank 0
InsertAtRank0(docLists, i, d) == [docLists EXCEPT ![i] = <<d>> \o @]

\* C15: for a content d of the fused output, putting d at rank 0 of any one
\* list never moves d to a later position of the fused output.
C15_RankZeroInsertionIsMonotone ==
  (fn.op = "reciprocalRankFusion" /\ fn.done) =>
    \A d \in Range(fn.out) : \A i \in 1..Len(fn.docLists) :
      PositionIn(reciprocalRankFusion(InsertAtRank0(fn.docLists, i, d), fn.k), d)
        <= PositionIn(reciprocalRankFusion(fn.docLists, fn.k), d)

\* a fusion in which the insertion moves a content from the last of three
\* positions to the first
C15_Witness ==
  /\ fn.op = "reciprocalRankFusion" /\ fn.done
  /\ Len(fn.out) = 3
  /\ \E i \in 1..Len(fn.docLists) :
       /\ fn.out[3] \in Range(fn.docLists[i])
       /\ reciprocalRankFusion(InsertAtRank0(fn.docLists, i, fn.out[3]), fn.k)[1] = fn.out[3]

(***************************************************************************)
(* Properties of maximal marginal relevance.                               *)
(***************************************************************************)
\* C16: the selection is made with the configured retrieval.mmrLambda
\* clamped to [0, 1], whatever its value: with 1 it is the top k by
\* relevance, with 0 every pick after the first depends on the similarity
\* to the selected documents only.
C16_LambdaIsConfiguredClamped ==
  (fn.op = "mmrSelect" /\ fn.done /\ fn.k >= 1) =>
    fn.out = MMRSelection(fn.candidates, fn.k, Clamp01(config.retrieval.mmrLambda))

\* the lambda a finished selection was made with
UsedLambda == Clamp01(QueryLambda(client))

\* x is ahead of y in relevance order: the candidates by descending score,
\* in the order of the search on equal scores
AheadInRelevance(x, y) ==
  \/ x.score > y.score
  \/ x.score = y.score /\ PositionIn(fn.candidates, x) < PositionIn(fn.candidates, y)

ReplyFor(id) == fn.replies[CHOOSE i \in 1..Len(fn.docs) : fn.docs[i].id = id]

\* C18: reranking does not fail when scoring a document fails: a backend
\* error and a reply with no digit give the document score 0; the result is
\* the topN documents of highest score by descending score, and an empty
\* input gives an empty result.
C18_RerankToleratesScoringFailures ==
  (fn.op = "rerank" /\ fn.done) =>
    /\ ~fn.failed
    /\ Len(fn.out) = Min(config.reranking.topN, Len(fn.docs))
    /\ \A i, j \in 1..Len(fn.out) : i < j =>
         fn.out[i].id # fn.out[j].id /\ fn.out[i].score >= fn.out[j].score
    /\ \A i \in 1..Len(fn.out) :
         /\ \E d \in Range(fn.docs) : d.id = fn.out[i].id
         /\ (ReplyFor(fn.out[i].id).error
               \/ \A c \in Range(ReplyFor(fn.out[i].id).text) : c \notin Digits)
              => fn.out[i].score = 0
         /\ \A d \in Range(fn.docs) :
              (\A j \in 1..Len(fn.out) : fn.out[j].id # d.id)
                => scoreDocument(ReplyFor(d.id)).score <= fn.out[i].score
    /\ fn.docs = <<>> => fn.out = <<>>

\* three documents, one whose scoring failed, one whose reply has no digit
\* and one scored above 0, reranked to the top 2
C18_Witness ==
  /\ fn.op = "rerank" /\ fn.done
  /\ Len(fn.docs) = 3 /\ config.reranking.topN = 2
  /\ \E i \in 1..3 : fn.replies[i].error
  /\ \E i \in 1..3 : fn.replies[i] = Reply(<<"n", "o">>)
  /\ Len(fn.out) = 2 /\ fn.out[1].score > 0 /\ fn.out[2].score = 0

(***************************************************************************)
(* Properties of the multi-query strategy and of evaluate.                 *)
(***************************************************************************)
\* C19: when the rewriting succeeds, the searched queries are the first 3
\* non-empty rewritten lines, then at most 3 hypothetical questions, then
\* the original query; when the generation of hypothetical questions fails
\* (backend error or unparseable reply) they are the rewritten lines and
\* the original query, and retrieval goes on.
C19_HypotheticalQuestionsFailSoft ==
  (fn.op = "multiQuery" /\ fn.done /\ ~fn.multi.error) =>
    LET lines == generateMultiQueries(fn.multi).value
    IN  /\ ~fn.failed
        /\ Len(lines) <= MaxGenerated
        /\ Len(fn.out) >= Len(lines) + 1
        /\ Len(fn.out) <= Len(lines) + MaxGenerated + 1
        /\ SubSeq(fn.out, 1, Len(lines)) = lines
        /\ fn.out[Len(fn.out)] = fn.query
        /\ (fn.hyp.error \/ JSONparseTokens(Clean(fn.hyp.text)).threw)
             => fn.out = Append(lines, fn.query)

\* C20: on a client whose queryRAG works (observability on), evaluate
\* returns one report entry per test item, with faithfulness and relevance
\* numbers in [0, 1], and 0 where the judging call failed or its reply is
\* no number.
C20_EvaluateScoresAreInUnitInterval ==
  (fn.op = "evaluate" /\ fn.done /\ client.logger # "null") =>
    /\ ~fn.failed
    /\ Len(fn.out) = Len(fn.testSet)
    /\ \A i \in 1..Len(fn.out) :
         /\ ~fn.out[i].faithfulness.nan /\ fn.out[i].faithfulness.tenths \in 0..LambdaScale
         /\ ~fn.out[i].relevance.nan /\ fn.out[i].relevance.tenths \in 0..LambdaScale
         /\ (fn.testSet[i].faith.error \/ parseFloat(fn.testSet[i].faith.text).nan)
              => fn.out[i].faithfulness = Num(0)
         /\ (fn.testSet[i].rel.error \/ parseFloat(fn.testSet[i].rel.text).nan)
              => fn.out[i].relevance = Num(0)

(***************************************************************************)
(* Properties of the streaming branch of queryRAG.                         *)
(***************************************************************************)
\* the deltas of chunks, concatenated
RECURSIVE Concatenation(_)
Concatenation(chunks) ==
  IF chunks = <<>> THEN ""
  ELSE Concatenation(SubSeq(chunks, 1, Len(chunks) - 1)) \o Delta(chunks[Len(chunks)])

\* how many times ev was emitted
Occurrences(events, ev) == Cardinality({ i \in DOMAIN events : events[i] = ev })

\* C21: in streaming mode the consumer receives every element of the
\* backend stream unchanged and in production order; when the backend
\* stream ends, onGenerationEnd is emitted exactly once, as the last event,
\* with the concatenation of all deltas, and not before; when the backend
\* stream fails, onError is emitted, the consumer receives the stream's
\* error and onGenerationEnd is not emitted.
C21_StreamIsRelayedAndClosedOnce ==
  \A p \in Procs :
    LET q == query[p]
    IN  /\ q.yielded = q.produced
        /\ q.ended = "end" =>
             /\ Occurrences(q.events, "onGenerationEnd") = 1
             /\ q.events[Len(q.events)] = "onGenerationEnd"
             /\ q.answer = Concatenation(q.produced)
        /\ q.ended = "error" =>
             /\ Occurrences(q.events, "onError") = 1
             /\ q.streamError = "StreamError"
             /\ Occurrences(q.events, "onGenerationEnd") = 0
        /\ q.pc = "streaming" => Occurrences(q.events, "onGenerationEnd") = 0

(***************************************************************************)
(* Properties of the stages of queryRAG.                                   *)
(***************************************************************************)
\* the place of a callback event in the order of the stages
StageOf(ev) ==
  CASE ev = "onRetrievalStart"  -> 1
    [] ev = "onRerankingStart"  -> 2
    [] ev = "onRerankingEnd"    -> 3
    [] ev = "onRetrievalEnd"    -> 4
    [] ev = "onGenerationStart" -> 5
    [] ev = "onGenerationEnd"   -> 6
    [] ev = "onError"           -> 7

\* ev was emitted by the query of caller p
QueryEmitted(p, ev) == \E i \in DOMAIN query[p].events : query[p].events[i] = ev

\* C22: within one queryRAG call the events follow the order of the
\* stages and never go back: onRetrievalStart, then onRerankingStart and
\* onRerankingEnd, then onRetrievalEnd, then onGenerationStart, then
\* onGenerationEnd; an event of a stage is emitted only after the events
\* that close the stages before it, and after a failure (onError) nothing
\* further runs: no later event is emitted and no answer is generated by a
\* query whose retrieval failed.
C22_StagesRunInOrder ==
  \A p \in Procs :
    LET q == query[p]
    IN  /\ \A i, j \in DOMAIN q.events : i < j => StageOf(q.events[i]) < StageOf(q.events[j])
        /\ QueryEmitted(p, "onRerankingStart") => QueryEmitted(p, "onRetrievalStart")
        /\ QueryEmitted(p, "onRerankingEnd") => QueryEmitted(p, "onRerankingStart")
        /\ QueryEmitted(p, "onRetrievalEnd") =>
             /\ QueryEmitted(p, "onRetrievalStart")
             /\ client.config.reranking.enabled => QueryEmitted(p, "onRerankingEnd")
        /\ QueryEmitted(p, "onGenerationStart") => QueryEmitted(p, "onRetrievalEnd")
        /\ QueryEmitted(p, "onGenerationEnd") => QueryEmitted(p, "onGenerationStart")
        /\ q.generated => QueryEmitted(p, "onGenerationStart")
        /\ q.thrown # "none" => q.pc = "done" /\ q.result # "ok"
        /\ (q.thrown # "none" /\ ~QueryEmitted(p, "onRetrievalEnd")) =>
             ~QueryEmitted(p, "onGenerationStart") /\ ~q.generated
        /\ (q.thrown # "none" /\ ~q.generated) => ~QueryEmitted(p, "onGenerationEnd")

\* a query with reranking went through every stage
C22_Witness ==
  \E p \in Procs :
    /\ query[p].result = "ok"
    /\ query[p].events = <<"onRetrievalStart", "onRerankingStart", "onRerankingEnd",
                           "onRetrievalEnd", "onGenerationStart", "onGenerationEnd">>

(***************************************************************************)
(* Properties of ingestion with the default observability.                 *)
(***************************************************************************)
\* C25: with observability disabled and handlers that do not throw, a
\* single-file ingest whose load, chunking and embedding succeeded and
\* whose store write succeeded at the first attempt resolves successfully
\* and emits no onError, as it does with observability enabled.
C25_IngestOutcomeIgnoresObservability ==
  \A p \in Procs :
    ( /\ Done(p)
      /\ call[p].wrote
      /\ call[p].sleeps = <<>>
      /\ ~config.observability.enabled
      /\ config.callbacks = "none" )
    => /\ call[p].result = "ok"
       /\ ~Emitted(p, "onError")

\* C26: the store write of an ingest is attempted at most 3 times;
\* onIngestEnd is emitted only after an attempt has succeeded; and when the
\* third attempt has failed the ingest emits onError and rejects with the
\* store's error.
C26_WriteRetryThenFail ==
  \A p \in Procs :
    /\ call[p].pc = "write" => call[p].attempt < MaxAttempts
    /\ Emitted(p, "onIngestEnd") => call[p].wrote
    /\ call[p].thrown = "StoreError"
         => /\ Done(p)
            /\ call[p].attempt = MaxAttempts
            /\ ~call[p].wrote
            /\ Emitted(p, "onError")
            /\ call[p].result = "StoreError"

(***************************************************************************)
(* Properties of the batching of the chunks to embed.                      *)
(***************************************************************************)
\* the batching loop has been left
BatchingDone == fn.op = "batching" /\ fn.done

\* the batches are the chunks to embed, in order, cut into pieces of at
\* most `limit` chunks
BatchesPartition ==
  LET limit == BatchLimit(client, Len(fn.toEmbed))
  IN  /\ Flatten(fn.batches) = fn.toEmbed
      /\ \A k \in DOMAIN fn.batches : Len(fn.batches[k]) <= limit

\* C27: for every concurrencyLimit the schema accepts, 0 and negative
\* values included, with rate limiting enabled the splitting of the chunks
\* to embed into batches terminates, and the batches then partition the
\* chunks to embed in their original order with at most concurrencyLimit
\* chunks each.
C27_BatchingTerminatesWithPartition ==
  /\ <>BatchingDone
  /\ []((BatchingDone /\ client.config.ingestion.rateLimitEnabled) => BatchesPartition)

(***************************************************************************)
(* Properties of agentic chunking.                                         *)
(***************************************************************************)
\* the propositions a reply offers: the strings of its JSON array, trimmed
\* and whitespace-collapsed, of at least 2 characters; none when the
\* backend failed or the reply is not a JSON array
Usable(reply) ==
  IF reply.error THEN {}
  ELSE LET parsed == JSONparseList(Clean(reply.text))
       IN  IF parsed.threw \/ ~parsed.isArray THEN {}
           ELSE { Norm(lit) : lit \in { l \in Range(parsed.value) \cap StringLiterals :
                                          Len(Norm(l)) > 1 } }

\* C30: agentic chunking never drops a window: the chunks it outputs for a
\* window are the usable propositions of the backend's reply, each once,
\* when there is at least one, and the window itself, unchanged, when
\* there is none (backend failure, JSON parse failure, or a reply without
\* a usable proposition).
C30_AgenticSplitKeepsEveryWindow ==
  (fn.op = "agenticSplit" /\ fn.done) =>
    \A i \in DOMAIN fn.windows :
      LET pushed == fn.out[i]
          usable == Usable(fn.replies[i])
      IN  /\ pushed # <<>>
          /\ usable = {} => pushed = <<fn.windows[i]>>
          /\ usable # {} => /\ Range(pushed) = usable
                            /\ Cardinality(usable) = Len(pushed)

(***************************************************************************)
(* Properties of the store after an ingest.                                *)
(***************************************************************************)
\* the rows the store holds for chunk i (1-based) of the content of f
RowsOfChunk(rows, f, i) ==
  { r \in rows : r.fileSHA256 = f.sha /\ r.chunkIndex = i - 1 }

\* C29: when a single-file ingest in append or skip mode of a file whose
\* content the store held nothing of has completed successfully, also after a store
\* write that failed part-way through its documents and was retried, the
\* store holds exactly one row for each chunk of the file, and the row
\* carries the chunk's content and the embedding of that content.
C29_OneRowPerChunkAfterIngest ==
  \A p \in Procs :
    ( /\ Done(p)
      /\ call[p].result = "ok"
      /\ call[p].wrote
      /\ ConfiguredMode \in {"append", "skip"}
      /\ \A r \in call[p].storeBefore : r.fileSHA256 # call[p].file.sha )
    => \A i \in DOMAIN Chunks(call[p].file.sha) :
         /\ Cardinality(RowsOfChunk(vectorStore, call[p].file, i)) = 1
         /\ \A r \in RowsOfChunk(vectorStore, call[p].file, i) :
              /\ r.content = Chunks(call[p].file.sha)[i]
              /\ r.embedding = Embed(Chunks(call[p].file.sha)[i])

C28_ConcurrentSkipStoresOnce ==
  \A p, q \in Callers :
    ( /\ p # q
      /\ Done(p) /\ Done(q)
      /\ call[p].file = call[q].file
      /\ call[p].file # NoFile
      /\ IngestMode(client) = "skip"
      /\ \A r \in call[p].storeBefore \cup call[q].storeBefore :
           r.fileSHA256 # call[p].file.sha )
    => \A i \in DOMAIN Chunks(call[p].file.sha) :
         Cardinality(RowsOfChunk(vectorStore, call[p].file, i)) <= 1

(***************************************************************************)
(* Properties of concurrent queries.                                       *)
(***************************************************************************)
\* the messages written to session s, in the order of the writes
SessionLog(s) == ProjectAll(history.added[s])

\* C24: when two non-streaming queries on the same sessionId have run
\* concurrently against a Redis or Postgres history store and no external
\* call failed, the session log holds, for each of them, the user message
\* of the query immediately followed by the assistant message of that
\* query.
C24_SessionWritesAreSerialized ==
  \A p, q \in Callers :
    ( /\ p # q
      /\ query[p].pc = "done" /\ query[q].pc = "done"
      /\ query[p].sessionId # NoSession
      /\ query[p].sessionId = query[q].sessionId
      /\ ~query[p].envFailed /\ ~query[q].envFailed
      /\ Remote(history) )
    => \E i \in 1..(Len(SessionLog(query[p].sessionId)) - 1) :
         /\ SessionLog(query[p].sessionId)[i] = [role |-> "user", content |-> query[p].text]
         /\ SessionLog(query[p].sessionId)[i + 1] = [role |-> "assistant", content |-> Answer]
====
